---- MODULE Spec2Model ----
(***************************************************************************)
(* Local Space Normal Editor (src/__init__.py): the mirror loop matcher,   *)
(* the normal store kept in an object's custom property, the spherical     *)
(* picker's apply step and the normal-map bake (rasterize, padding).       *)
(*                                                                         *)
(* Numbers.  Positions are integer triples in a fixed length unit and      *)
(* distances are compared through their squares as exact fractions         *)
(* <<num, den>>, so "dist < best_dist" of the source is decided exactly    *)
(* (the source computes in floating point; rounding is not modelled).      *)
(***************************************************************************)
EXTENDS Integers, Sequences, FiniteSets, TLC

VARIABLES mesh,      \* bm.faces / mesh.polygons: a sequence of faces, each a sequence of vertex positions
          select,    \* face.select of every face
          mirror,    \* one call of find_mirror_loops: its arguments and what it returned
          prop,      \* obj["local_normal_editor_data"]: absent, a text (a sequence of JSON tokens) or another value
          storeop,   \* the last call of save_normals_to_object / load_normals_from_object and its result
          settings,  \* context.scene.local_normal_editor: mirror_axis, yaw, pitch, use_snap
          mode,      \* obj.mode: "EDIT" or "OBJECT"
          normals,   \* mesh.corner_normals: the Direction of every corner, corner l at place l + 1
          op,        \* the MESH_OT_spherical_popup instance and whether it runs modally
          handlers,  \* the number of draw handlers the picker has registered with SpaceView3D
          last,      \* the last operation the host ran and what it returned
          uv,        \* mesh.uv_layers.active: the UV of every corner, by face, or NoUV
          bake,      \* one run of a bake operator: its properties, the arguments, position and arrays of bake_normal_map_process
          images,    \* bpy.data.images, and the windows and image editors that show them
          toon       \* _toon_preview_state: the batch of the toon preview, and how its last update ended

vars == <<mesh, select, mirror, prop, storeop, settings, mode, normals, op, handlers, last, uv, bake, images, toon>>

meshVars == <<mesh, select>>
bakeVars == <<uv, bake, images, toon>>
pickerVars == <<settings, mode, normals, op, handlers, last>>

\* A value for the state of a component that a specification does not run.
Idle == [st |-> "idle"]

\* A mesh without a UV layer.
NoUV == [layer |-> "none", data |-> <<>>]

\* The bake's variables in a specification that does not run the bake.
\* No image, and the one window the host starts with.
NoImages == [data |-> <<>>, shown |-> {}, windows |-> 1]

\* _toon_preview_state as the module creates it: no batch.
NoBatch == [st |-> "idle", batch |-> "None"]

BakeUnused == uv = NoUV /\ bake = Idle /\ images = NoImages /\ toon = NoBatch

\* The picker's variables in a specification that does not run the picker.
PickerUnused ==
    /\ settings = Idle
    /\ mode = "OBJECT"
    /\ normals = <<>>
    /\ op = Idle
    /\ handlers = 0
    /\ last = Idle

(***************************************************************************)
(* Arithmetic helpers                                                      *)
(***************************************************************************)
Abs(n) == IF n < 0 THEN -n ELSE n

RECURSIVE SeqSum(_)
SeqSum(s) == IF s = <<>> THEN 0 ELSE Head(s) + SeqSum(Tail(s))

SetMin(S) == CHOOSE m \in S : \A n \in S : m <= n

\* Fractions <<num, den>> with den > 0.
FracLess(a, b) == a[1] * b[2] < b[1] * a[2]
FracEq(a, b) == a[1] * b[2] = b[1] * a[2]

VecSub(a, b) == <<a[1] - b[1], a[2] - b[2], a[3] - b[3]>>
VecScale(a, k) == <<a[1] * k, a[2] * k, a[3] * k>>
VecLen2(a) == a[1] * a[1] + a[2] * a[2] + a[3] * a[3]

RECURSIVE VecSum(_)
VecSum(s) == IF s = <<>> THEN <<0, 0, 0>>
             ELSE LET r == VecSum(Tail(s)) IN <<Head(s)[1] + r[1], Head(s)[2] + r[2], Head(s)[3] + r[3]>>

(***************************************************************************)
(* Mesh                                                                    *)
(***************************************************************************)
Axes == {"X", "Y", "Z"}

\* axis_idx = {'X': 0, 'Y': 1, 'Z': 2}[axis], one-based here.
AxisIdx(axis) == CASE axis = "X" -> 1 [] axis = "Y" -> 2 [] axis = "Z" -> 3

\* v.copy(); v[axis_idx] = -v[axis_idx]
Negate(v, axis) == [v EXCEPT ![AxisIdx(axis)] = -v[AxisIdx(axis)]]

NumFaces(m) == Len(m)

\* loop.index: the corners of the faces are numbered consecutively from 0.
LoopStart(m, f) == SeqSum([g \in 1..(f - 1) |-> Len(m[g])])
LoopIndex(m, f, j) == LoopStart(m, f) + (j - 1)
LoopsOf(m, f) == {LoopIndex(m, f, j) : j \in 1..Len(m[f])}
AllLoops(m) == UNION {LoopsOf(m, f) : f \in 1..Len(m)}
FaceOfLoop(m, l) == CHOOSE f \in 1..Len(m) : l \in LoopsOf(m, f)
LoopCo(m, l) == LET f == FaceOfLoop(m, l) IN m[f][l - LoopStart(m, f) + 1]

\* face.calc_center_median(): the mean of the vertex positions, kept as
\* <<sum of the positions, number of vertices>>.
CalcCenterMedian(face) == <<VecSum(face), Len(face)>>

\* The square of the distance between two centres, as a fraction.
CenterDist2(c, d) ==
    <<VecLen2(VecSub(VecScale(c[1], d[2]), VecScale(d[1], c[2]))), (c[2] * d[2]) * (c[2] * d[2])>>

\* The square of (a - b).length for two vertex positions.
VertDist2(a, b) == <<VecLen2(VecSub(a, b)), 1>>

\* The faces the test meshes are made of.  A and AX are mirror images about
\* X, A and AY about Y; AX1 and AX2 are AX moved by 1 and 2 units along X;
\* B has the centre of AX and other vertices, BX is its image about X (and
\* so has the centre of A); P lies in the plane x = 0 and is its own image.
FacePool ==
    << << <<4, 0, 0>>, <<8, 0, 0>>, <<4, 6, 0>> >>,        \* A
       << <<-8, 0, 0>>, <<-4, 6, 0>>, <<-4, 0, 0>> >>,     \* AX
       << <<-7, 0, 0>>, <<-3, 6, 0>>, <<-3, 0, 0>> >>,     \* AX1
       << <<-6, 0, 0>>, <<-2, 6, 0>>, <<-2, 0, 0>> >>,     \* AX2
       << <<-4, 0, 0>>, <<-8, 3, 0>>, <<-4, 3, 0>> >>,     \* B
       << <<4, 0, 0>>, <<8, 3, 0>>, <<4, 3, 0>> >>,        \* BX
       << <<4, 0, 0>>, <<8, 0, 0>>, <<4, -6, 0>> >>,       \* AY
       << <<0, 0, 0>>, <<0, 6, 0>>, <<0, 3, 3>>, <<0, 0, 3>> >> >>  \* P

\* The largest number of faces of a test mesh.
MaxFaces == 4

\* The thresholds tried, in length units (the default 0.001 is one of them
\* at a unit of 0.0005 or 0.001).
Thresholds == {1, 2, 3}

RECURSIVE SortedSeq(_)
SortedSeq(S) == IF S = {} THEN <<>> ELSE LET m == SetMin(S) IN <<m>> \o SortedSeq(S \ {m})

Reverse(s) == [i \in 1..Len(s) |-> s[Len(s) + 1 - i]]

\* A test mesh: some faces of the pool, in the pool's order or in the reverse order.
MeshOf(S, rev) ==
    LET ix == IF rev THEN Reverse(SortedSeq(S)) ELSE SortedSeq(S)
    IN [i \in 1..Len(ix) |-> FacePool[ix[i]]]

Meshes(maxFaces) ==
    {MeshOf(S, rev) : S \in {T \in SUBSET (1..Len(FacePool)) : T # {} /\ Cardinality(T) <= maxFaces},
                      rev \in BOOLEAN}

Selections(m) == [1..Len(m) -> BOOLEAN]

(***************************************************************************)
(* find_mirror_loops                                                       *)
(***************************************************************************)
\* [f for f in bm.faces if f.select] and [f for f in bm.faces if not f.select], in face order.
SelectedFaces(m, sel) == SortedSeq({f \in 1..Len(m) : sel[f]})

\* Mutant: the candidates are all faces, the selected ones included.
OtherFacesAll(m, sel) == SortedSeq(1..Len(m))

OtherFaces(m, sel) == SortedSeq({f \in 1..Len(m) : ~sel[f]})

\* Mutant: the centre is not reflected.
MirrorCenterNotReflected(face, axis) == CalcCenterMedian(face)

\* mirror_center: the centre with the axis coordinate negated.
MirrorCenter(face, axis) == <<Negate(CalcCenterMedian(face)[1], axis), Len(face)>>

\* Mutant: dist <= best_dist.
NearerOrEqual(dist2, best2) == ~FracLess(best2, dist2)

\* The comparison of the scans: dist < best_dist.
Nearer(dist2, best2) == FracLess(dist2, best2)

\* for other_face in other_faces: ... if dist < best_dist: best_dist, best_match = dist, other_face
\* The state of the scan is [match, dist2]; match = 0 is None.
RECURSIVE ScanFaces(_, _, _, _, _)
ScanFaces(m, others, k, mc, best) ==
    IF k > Len(others) THEN best
    ELSE LET d2 == CenterDist2(CalcCenterMedian(m[others[k]]), mc)
         IN ScanFaces(m, others, k + 1, mc,
               IF Nearer(d2, best.dist2) THEN [match |-> others[k], dist2 |-> d2] ELSE best)

BestMatch(m, sel, f, axis, thr) ==
    ScanFaces(m, OtherFaces(m, sel), 1, MirrorCenter(m[f], axis),
              [match |-> 0, dist2 |-> <<thr * thr, 1>>]).match

\* for other_loop in best_match.loops: ... if dist < best_loop_dist: ...
\* The state of the scan is [loop, dist2]; loop = -1 is None.
RECURSIVE ScanLoops(_, _, _, _, _)
ScanLoops(m, g, j, mco, best) ==
    IF j > Len(m[g]) THEN best
    ELSE LET d2 == VertDist2(m[g][j], mco)
         IN ScanLoops(m, g, j + 1, mco,
               IF Nearer(d2, best.dist2) THEN [loop |-> LoopIndex(m, g, j), dist2 |-> d2] ELSE best)

BestLoop(m, g, co, axis, thr) ==
    ScanLoops(m, g, 1, Negate(co, axis), [loop |-> -1, dist2 |-> <<thr * thr, 1>>]).loop

\* The entries one selected face adds to mirror_map: none when best_match is None.
FaceEntries(m, sel, f, axis, thr) ==
    LET g == BestMatch(m, sel, f, axis, thr)
    IN IF g = 0 THEN {}
       ELSE {<<LoopIndex(m, f, j), BestLoop(m, g, m[f][j], axis, thr)>> :
                j \in {i \in 1..Len(m[f]) : BestLoop(m, g, m[f][i], axis, thr) # -1}}

\* mirror_map[sel_loop.index] = best_loop.index over the selected faces in
\* order: a later face's entry for a key replaces an earlier one.
RECURSIVE FoldFaces(_, _, _, _, _, _)
FoldFaces(m, sel, sf, k, axis, thr) ==
    IF k = 0 THEN [l \in {} |-> 0]
    ELSE LET prev == FoldFaces(m, sel, sf, k - 1, axis, thr)
             new == FaceEntries(m, sel, sf[k], axis, thr)
             keys == {e[1] : e \in new}
         IN [l \in (DOMAIN prev) \cup keys |->
                IF l \in keys THEN (CHOOSE e \in new : e[1] = l)[2] ELSE prev[l]]

FindMirrorLoops(m, sel, axis, thr) ==
    LET sf == SelectedFaces(m, sel) IN FoldFaces(m, sel, sf, Len(sf), axis, thr)

(***************************************************************************)
(* The matcher as a function: one call on every test mesh                  *)
(***************************************************************************)
MirrorInit ==
    /\ mesh \in Meshes(MaxFaces)
    /\ select \in Selections(mesh)
    /\ mirror = Idle
    /\ prop = [kind |-> "absent"]
    /\ storeop = Idle
    /\ PickerUnused
    /\ BakeUnused

CallFindMirrorLoops ==
    /\ mirror = Idle
    /\ \E axis \in Axes, thr \in Thresholds :
          mirror' = [st |-> "returned", axis |-> axis, threshold |-> thr,
                     map |-> FindMirrorLoops(mesh, select, axis, thr),
                     match |-> [f \in {g \in 1..Len(mesh) : select[g]} |->
                                   BestMatch(mesh, select, f, axis, thr)]]
    /\ UNCHANGED <<mesh, select, prop, storeop, pickerVars, bakeVars>>

MirrorNext == CallFindMirrorLoops

SpecMirror == MirrorInit /\ [][MirrorNext]_vars

(***************************************************************************)
(* The normal store: save_normals_to_object / load_normals_from_object     *)
(*                                                                         *)
(* A text is the sequence of its JSON tokens [k, v]: the punctuation       *)
(* "{" "}" "[" "]" "," ":", a string ("str", v its characters), a number   *)
(* ("num", v its value; numbers are integers here), "null", and "junk"     *)
(* (anything that is no JSON token).  A Python value is [t, v]: "dict"     *)
(* (v a sequence of <<key, value>> in insertion order, keys strings),      *)
(* "list", "str", "num", "null".  A store (a dict from int to tuple) is a  *)
(* sequence of <<key, tuple>> in insertion order, a tuple a sequence of    *)
(* Python values.                                                          *)
(***************************************************************************)
Tok(k) == [k |-> k, v |-> 0]
TStr(chars) == [k |-> "str", v |-> chars]
TNum(n) == [k |-> "num", v |-> n]

PyNum(n) == [t |-> "num", v |-> n]
PyStr(chars) == [t |-> "str", v |-> chars]
PyNull == [t |-> "null", v |-> <<>>]
PyList(items) == [t |-> "list", v |-> items]
PyDict(items) == [t |-> "dict", v |-> items]

\* d[key] = val of a Python dict kept as a sequence of <<key, value>>: the
\* value of a key already there is replaced in place, a new key is appended.
DictHas(d, key) == \E i \in 1..Len(d) : d[i][1] = key
DictGet(d, key) == d[CHOOSE i \in 1..Len(d) : d[i][1] = key][2]
DictSet(d, key, val) ==
    IF DictHas(d, key)
    THEN [i \in 1..Len(d) |-> IF d[i][1] = key THEN <<key, val>> ELSE d[i]]
    ELSE Append(d, <<key, val>>)
DictKeys(d) == {d[i][1] : i \in 1..Len(d)}

DigitChars == <<"0", "1", "2", "3", "4", "5", "6", "7", "8", "9">>
IsDigit(c) == \E d \in 1..10 : DigitChars[d] = c
DigitVal(c) == (CHOOSE d \in 1..10 : DigitChars[d] = c) - 1

RECURSIVE NatToStr(_)
NatToStr(n) == IF n < 10 THEN <<DigitChars[n + 1]>> ELSE NatToStr(n \div 10) \o <<DigitChars[(n % 10) + 1]>>

\* Mutant: the sign is lost.
IntToStrNoSign(n) == NatToStr(Abs(n))

\* str(k) of an int.
IntToStr(n) == IF n < 0 THEN <<"-">> \o NatToStr(-n) ELSE NatToStr(n)

RECURSIVE StripLeft(_)
StripLeft(s) == IF s # <<>> /\ Head(s) = " " THEN StripLeft(Tail(s)) ELSE s
Strip(s) == Reverse(StripLeft(Reverse(StripLeft(s))))

RECURSIVE DigitsVal(_)
DigitsVal(s) == IF s = <<>> THEN 0 ELSE DigitsVal(SubSeq(s, 1, Len(s) - 1)) * 10 + DigitVal(s[Len(s)])

\* int(k) of a str: surrounding blanks, an optional sign, then digits
\* (leading zeros allowed); anything else raises ValueError.
StrToInt(s) ==
    LET t == Strip(s)
        signed == t # <<>> /\ Head(t) \in {"-", "+"}
        ds == IF signed THEN Tail(t) ELSE t
    IN IF ds # <<>> /\ \A i \in 1..Len(ds) : IsDigit(ds[i])
       THEN [ok |-> TRUE, val |-> IF signed /\ Head(t) = "-" THEN -DigitsVal(ds) ELSE DigitsVal(ds)]
       ELSE [ok |-> FALSE, val |-> 0]

\* json.dumps of a Python value.
RECURSIVE Dumps(_)
RECURSIVE DumpsItems(_)
RECURSIVE DumpsMembers(_)
Dumps(x) ==
    CASE x.t = "num" -> <<TNum(x.v)>>
      [] x.t = "str" -> <<TStr(x.v)>>
      [] x.t = "null" -> <<Tok("null")>>
      [] x.t = "list" -> <<Tok("[")>> \o DumpsItems(x.v) \o <<Tok("]")>>
      [] x.t = "dict" -> <<Tok("{")>> \o DumpsMembers(x.v) \o <<Tok("}")>>
DumpsItems(items) ==
    IF items = <<>> THEN <<>>
    ELSE Dumps(Head(items)) \o (IF Len(items) > 1 THEN <<Tok(",")>> ELSE <<>>) \o DumpsItems(Tail(items))
DumpsMembers(items) ==
    IF items = <<>> THEN <<>>
    ELSE <<TStr(Head(items)[1]), Tok(":")>> \o Dumps(Head(items)[2])
         \o (IF Len(items) > 1 THEN <<Tok(",")>> ELSE <<>>) \o DumpsMembers(Tail(items))

\* json.loads of a text: [ok, val, pos], pos the place after the value read.
ParseFail == [ok |-> FALSE, val |-> PyNull, pos |-> 0]
RECURSIVE ParseValue(_, _)
RECURSIVE ParseItems(_, _, _)
RECURSIVE ParseMembers(_, _, _)
ParseValue(toks, i) ==
    IF i > Len(toks) THEN ParseFail
    ELSE CASE toks[i].k = "num" -> [ok |-> TRUE, val |-> PyNum(toks[i].v), pos |-> i + 1]
           [] toks[i].k = "str" -> [ok |-> TRUE, val |-> PyStr(toks[i].v), pos |-> i + 1]
           [] toks[i].k = "null" -> [ok |-> TRUE, val |-> PyNull, pos |-> i + 1]
           [] toks[i].k = "[" ->
                IF i + 1 <= Len(toks) /\ toks[i + 1].k = "]"
                THEN [ok |-> TRUE, val |-> PyList(<<>>), pos |-> i + 2]
                ELSE ParseItems(toks, i + 1, <<>>)
           [] toks[i].k = "{" ->
                IF i + 1 <= Len(toks) /\ toks[i + 1].k = "}"
                THEN [ok |-> TRUE, val |-> PyDict(<<>>), pos |-> i + 2]
                ELSE ParseMembers(toks, i + 1, <<>>)
           [] OTHER -> ParseFail
ParseItems(toks, i, acc) ==
    LET r == ParseValue(toks, i)
    IN IF ~r.ok \/ r.pos > Len(toks) THEN ParseFail
       ELSE CASE toks[r.pos].k = "," -> ParseItems(toks, r.pos + 1, Append(acc, r.val))
              [] toks[r.pos].k = "]" -> [ok |-> TRUE, val |-> PyList(Append(acc, r.val)), pos |-> r.pos + 1]
              [] OTHER -> ParseFail
ParseMembers(toks, i, acc) ==
    IF i + 1 > Len(toks) \/ toks[i].k # "str" \/ toks[i + 1].k # ":" THEN ParseFail
    ELSE LET r == ParseValue(toks, i + 2)
         IN IF ~r.ok \/ r.pos > Len(toks) THEN ParseFail
            ELSE CASE toks[r.pos].k = "," -> ParseMembers(toks, r.pos + 1, DictSet(acc, toks[i].v, r.val))
                   [] toks[r.pos].k = "}" ->
                        [ok |-> TRUE, val |-> PyDict(DictSet(acc, toks[i].v, r.val)), pos |-> r.pos + 1]
                   [] OTHER -> ParseFail

\* json.loads(json_str): the whole text must be one value.
Loads(toks) ==
    LET r == ParseValue(toks, 1)
    IN IF r.ok /\ r.pos = Len(toks) + 1 THEN r ELSE ParseFail

\* tuple(v): the elements of a list, the characters of a str, the keys of a
\* dict; a number or None raises TypeError.
TupleOf(x) ==
    CASE x.t = "list" -> [ok |-> TRUE, val |-> x.v]
      [] x.t = "str" -> [ok |-> TRUE, val |-> [i \in 1..Len(x.v) |-> PyStr(<<x.v[i]>>)]]
      [] x.t = "dict" -> [ok |-> TRUE, val |-> [i \in 1..Len(x.v) |-> PyStr(x.v[i][1])]]
      [] OTHER -> [ok |-> FALSE, val |-> <<>>]

\* {int(k): tuple(v) for k, v in data.items()}: [ok, val]; not ok when an
\* int(k) or a tuple(v) raises.
RECURSIVE LoadItems(_, _)
LoadItems(items, acc) ==
    IF items = <<>> THEN [ok |-> TRUE, val |-> acc]
    ELSE LET k == StrToInt(Head(items)[1])
             v == TupleOf(Head(items)[2])
         IN IF ~k.ok \/ ~v.ok THEN [ok |-> FALSE, val |-> <<>>]
            ELSE LoadItems(Tail(items), DictSet(acc, k.val, v.val))

\* obj.get(CUSTOM_NORMAL_PROP, "{}")
PropOrDefault(p) == IF p.kind = "absent" THEN [kind |-> "text", toks |-> <<Tok("{"), Tok("}")>>] ELSE p

\* load_normals_from_object: every exception gives {}.
LoadNormalsFromObject(p) ==
    LET js == PropOrDefault(p)
    IN IF js.kind # "text" THEN <<>>
       ELSE LET data == Loads(js.toks)
            IN IF ~data.ok \/ data.val.t # "dict" THEN <<>>
               ELSE LET r == LoadItems(data.val.v, <<>>)
                    IN IF r.ok THEN r.val ELSE <<>>

\* save_normals_to_object: data = {str(k): list(v)}; obj[PROP] = json.dumps(data).
RECURSIVE SaveData(_, _)
SaveData(store, acc) ==
    IF store = <<>> THEN acc
    ELSE SaveData(Tail(store), DictSet(acc, IntToStr(Head(store)[1]), PyList(Head(store)[2])))

SaveNormalsToObject(store) == [kind |-> "text", toks |-> Dumps(PyDict(SaveData(store, <<>>)))]

\* nx, ny, nz = stored_normals[i]; Vector((nx, ny, nz)): a tuple that is not
\* three numbers raises.
Unpack3(tup) ==
    IF Len(tup) = 3 /\ \A i \in 1..3 : tup[i].t = "num"
    THEN [ok |-> TRUE, val |-> <<tup[1].v, tup[2].v, tup[3].v>>]
    ELSE [ok |-> FALSE, val |-> <<0, 0, 0>>]

\* (normal.x, normal.y, normal.z) as a stored tuple.
TupleOfDirection(d) == <<PyNum(d[1]), PyNum(d[2]), PyNum(d[3])>>

(***************************************************************************)
(* The store as a component: saves and loads on test properties           *)
(***************************************************************************)
\* The largest number of entries of a test store.
MaxEntries == 2

TestKeys == {0, 7, 12, -3}
TestDirections == {<<0, 0, 1>>, <<1, 0, 0>>, <<-1, 0, 0>>}

RECURSIVE TestStoresOfLen(_)
TestStoresOfLen(n) ==
    IF n = 0 THEN {<<>>}
    ELSE {Append(s, <<k, TupleOfDirection(d)>>) :
             s \in TestStoresOfLen(n - 1), k \in TestKeys, d \in TestDirections}

TestStores ==
    {s \in UNION {TestStoresOfLen(n) : n \in 0..MaxEntries} :
        \A i, j \in 1..Len(s) : i # j => s[i][1] # s[j][1]}

Arr(ns) == <<Tok("[")>> \o DumpsItems([i \in 1..Len(ns) |-> PyNum(ns[i])]) \o <<Tok("]")>>
Obj1(key, valtoks) == <<Tok("{"), TStr(key), Tok(":")>> \o valtoks \o <<Tok("}")>>
Text(toks) == [kind |-> "text", toks |-> toks]

\* The property values a session may find: absent, not a string, not
\* parseable, parseable but no mapping, and mappings well and badly formed.
TestProps ==
    << [kind |-> "absent"],
       [kind |-> "other"],
       Text(<<>>),
       Text(<<Tok("junk")>>),
       Text(<<Tok("{"), TStr(<<"0">>), Tok(":")>> \o Arr(<<0, 0, 1>>)),
       Text(<<Tok("{"), TStr(<<"0">>), Tok(":")>> \o Arr(<<0, 0, 1>>) \o <<Tok(","), Tok("}")>>),
       Text(<<TNum(5)>>),
       Text(<<Tok("null")>>),
       Text(Arr(<<0, 0, 1>>)),
       Text(<<Tok("{"), Tok("}")>>),
       Text(Obj1(<<"0">>, Arr(<<0, 0, 1>>))),
       Text(Obj1(<<"0", "7">>, Arr(<<1, 0, 0>>))),
       Text(Obj1(<<" ", "1", "2">>, Arr(<<1, 0, 0>>))),
       Text(Obj1(<<"a">>, Arr(<<0, 0, 1>>))),
       Text(Obj1(<<"0">>, <<TNum(5)>>)),
       Text(Obj1(<<"0">>, <<Tok("null")>>)),
       Text(Obj1(<<"0">>, Arr(<<0, 1>>))),
       Text(Obj1(<<"0">>, Arr(<<0, 0, 1, 0>>))),
       Text(Obj1(<<"0">>, <<TStr(<<"a", "b", "c">>)>>)),
       Text(Obj1(<<"0">>, <<Tok("["), Tok("null"), TNum(0), TNum(1), Tok("]")>>)),
       Text(Obj1(<<"0">>, Obj1(<<"x">>, <<TNum(1)>>))),
       Text(<<Tok("{"), TStr(<<"0">>), Tok(":")>> \o Arr(<<0, 0, 1>>) \o
            <<Tok(","), TStr(<<"7">>), Tok(":")>> \o Arr(<<0, 1>>) \o <<Tok("}")>>),
       Text(<<Tok("{"), TStr(<<"7">>), Tok(":")>> \o Arr(<<0, 0, 1>>) \o
            <<Tok(","), TStr(<<"0", "7">>), Tok(":")>> \o Arr(<<1, 0, 0>>) \o <<Tok("}")>>) >>

StoreInit ==
    /\ mesh = <<>>
    /\ select = <<>>
    /\ mirror = Idle
    /\ \E i \in 1..Len(TestProps) : prop = TestProps[i]
    /\ storeop = [st |-> "idle", saved |-> <<>>, hasSaved |-> FALSE]
    /\ PickerUnused
    /\ BakeUnused

\* stored_normals = load_normals_from_object(obj)
StoreLoad ==
    /\ storeop' = [st |-> "loaded", ret |-> LoadNormalsFromObject(prop),
                   saved |-> storeop.saved, hasSaved |-> storeop.hasSaved]
    /\ UNCHANGED <<mesh, select, mirror, prop, pickerVars, bakeVars>>

\* save_normals_to_object(obj, store)
StoreSave ==
    /\ \E s \in TestStores :
          /\ prop' = SaveNormalsToObject(s)
          /\ storeop' = [st |-> "saved", saved |-> s, hasSaved |-> TRUE]
    /\ UNCHANGED <<mesh, select, mirror, pickerVars, bakeVars>>

\* A consumer of the loaded store (bake, preview) unpacks the entry of a polygon.
StoreConsume ==
    /\ storeop.st = "loaded"
    /\ \E i \in 1..Len(storeop.ret) :
          storeop' = [st |-> "consumed", ret |-> storeop.ret, key |-> storeop.ret[i][1],
                      raised |-> ~Unpack3(storeop.ret[i][2]).ok,
                      saved |-> storeop.saved, hasSaved |-> storeop.hasSaved]
    /\ UNCHANGED <<mesh, select, mirror, prop, pickerVars, bakeVars>>

StoreNext == StoreLoad \/ StoreSave \/ StoreConsume

SpecStore == StoreInit /\ [][StoreNext]_vars

(***************************************************************************)
(* The spherical picker (MESH_OT_spherical_popup) and                      *)
(* apply_normal_to_selection                                               *)
(*                                                                         *)
(* Angles are integers in half degrees.  The test pointer positions give,  *)
(* after clamping and snapping, multiples of 90 degrees, where sine and    *)
(* cosine are -1, 0 or 1 (the float residue of cos(pi/2) is taken as 0).   *)
(***************************************************************************)
MirrorAxes == {"NONE", "X", "Y", "Z"}

\* threshold=0.001 of find_mirror_loops, in length units of 0.001.
DefaultThreshold == 1

\* _width and _height of the picker rectangle.
Width == 240
Height == 120

HalfTurn == 360   \* 180 degrees in half degrees

\* The most picker sessions (invocations that start the modal loop) explored.
MaxSessions == 1

Min(a, b) == IF a < b THEN a ELSE b
Max(a, b) == IF a > b THEN a ELSE b

\* snap_angle: round(angle / step) * step with step 15 degrees; round()
\* takes a tie to the even multiple.
SnapAngle(a) ==
    LET step == 30
        lo == a \div step
        r == a - step * lo
    IN IF r * 2 < step THEN lo * step
       ELSE IF r * 2 > step THEN (lo + 1) * step
       ELSE IF lo % 2 = 0 THEN lo * step ELSE (lo + 1) * step

\* sin and cos of a multiple of 90 degrees.
Sin90(a) == CASE (a \div 180) % 4 = 0 -> 0 [] (a \div 180) % 4 = 1 -> 1
              [] (a \div 180) % 4 = 2 -> 0 [] (a \div 180) % 4 = 3 -> -1
Cos90(a) == Sin90(a + 180)

\* spherical_to_vector(yaw, pitch)
SphericalToVector(yaw, pitch) ==
    LET vec == <<Sin90(yaw) * Cos90(pitch), (-Cos90(yaw)) * Cos90(pitch), Sin90(pitch)>>
    IN IF VecLen2(vec) = 0 THEN <<0, 0, 1>> ELSE vec

\* in_rect = abs(dx) <= half_w and abs(dy) <= half_h
InRect(dx, dy) == Abs(dx) <= Width \div 2 /\ Abs(dy) <= Height \div 2

\* update_angles_from_mouse: [yaw, pitch] from the pointer offset.
UpdateAnglesFromMouse(dx, dy, st) ==
    LET half_w == Width \div 2
        half_h == Height \div 2
        cx == Max(-half_w, Min(half_w, dx))
        cy == Max(-half_h, Min(half_h, dy))
        yaw == (cx * HalfTurn) \div half_w
        pitch == (cy * (HalfTurn \div 2)) \div half_h
    IN IF st.use_snap THEN [yaw |-> SnapAngle(yaw), pitch |-> SnapAngle(pitch)]
       ELSE [yaw |-> yaw, pitch |-> pitch]

\* {loop.index for face in bm.faces if face.select for loop in face.loops}
SelectedLoops(m, sel) == UNION {LoopsOf(m, f) : f \in {g \in 1..Len(m) : sel[g]}}

\* for poly in mesh.polygons: if set(poly.loop_indices) & loops: stored_normals[poly.index] = tup
RECURSIVE StorePolys(_, _, _, _, _)
StorePolys(stored, m, f, loops, tup) ==
    IF f > Len(m) THEN stored
    ELSE StorePolys(IF LoopsOf(m, f) \cap loops # {} THEN DictSet(stored, f - 1, tup) ELSE stored,
                    m, f + 1, loops, tup)

MapValues(map) == {map[l] : l \in DOMAIN map}

\* Mutant: one corner of the set is left out.
SetNormalsButOne(ns, loops, d) ==
    [i \in 1..Len(ns) |-> IF (i - 1) \in loops /\ \E j \in loops : j < i - 1 THEN d ELSE ns[i]]

\* normals[i] = d for every corner i of a set.
SetNormals(ns, loops, d) == [i \in 1..Len(ns) |-> IF (i - 1) \in loops THEN d ELSE ns[i]]

\* Mutant: the mirrored corners get the direction itself.
MirroredNormalNotNegated(normal, axis) == normal

\* mirrored_normal = normal.copy(); mirrored_normal[axis_idx] = -mirrored_normal[axis_idx]
MirroredNormal(normal, axis) == Negate(normal, axis)

\* apply_current_normal: what it leaves behind.  {'X': 0, 'Y': 1, 'Z': 2}
\* [settings.mirror_axis] raises KeyError for 'NONE', after the switch to
\* Object Mode and before anything is written.
ApplyCurrentNormal(o, st, p, ns, m) ==
    LET normal == SphericalToVector(o.yaw, o.pitch)
        stored1 == StorePolys(LoadNormalsFromObject(p), m, 1, o.selected_loops, TupleOfDirection(normal))
        normals1 == SetNormals(ns, o.selected_loops, normal)
    IN IF o.mirror_map = <<>>
       THEN [raised |-> FALSE, mode |-> "EDIT", prop |-> SaveNormalsToObject(stored1),
             normals |-> normals1, d |-> normal]
       ELSE IF st.mirror_axis = "NONE"
            THEN [raised |-> TRUE, mode |-> "OBJECT", prop |-> p, normals |-> ns, d |-> normal]
            ELSE LET mirrored == MirroredNormal(normal, st.mirror_axis)
                 IN [raised |-> FALSE, mode |-> "EDIT",
                     prop |-> SaveNormalsToObject(
                                 StorePolys(stored1, m, 1, MapValues(o.mirror_map), TupleOfDirection(mirrored))),
                     normals |-> SetNormals(normals1, MapValues(o.mirror_map), mirrored),
                     d |-> normal]

NoDirection == <<0, 0, 0>>
Last(name, result, d) == [op |-> name, result |-> result, d |-> d]

\* A fresh operator instance (the class attributes), not running.
FreshOp ==
    [running |-> FALSE, handle |-> FALSE, dragging |-> FALSE, yaw |-> 0, pitch |-> 0,
     selected_loops |-> {}, mirror_map |-> <<>>, map_axis |-> "NONE", original_normals |-> <<>>,
     prop_at_invoke |-> [kind |-> "absent"], sessions |-> 0]

\* The meshes and face selections the picker is run on: a mirrored pair with
\* one face or no face selected; a selected face with a candidate that has
\* one mirrored corner only; a selected face with its X and Y images; a
\* selected face whose X image is selected too and whose Y image is not.
PickerScenes ==
    << [mesh |-> <<FacePool[1], FacePool[2]>>, select |-> <<TRUE, FALSE>>],
       [mesh |-> <<FacePool[1], FacePool[2]>>, select |-> <<FALSE, FALSE>>],
       [mesh |-> <<FacePool[1], FacePool[5]>>, select |-> <<TRUE, FALSE>>],
       [mesh |-> <<FacePool[7], FacePool[1], FacePool[2]>>, select |-> <<FALSE, TRUE, FALSE>>],
       [mesh |-> <<FacePool[1], FacePool[2], FacePool[7]>>, select |-> <<TRUE, TRUE, FALSE>>] >>

\* The directions apply_normal_to_selection is called with.
PickerDirections == {<<0, 1, 0>>}

\* The property before the first session: absent, or a store saved earlier
\* with an entry for polygon 1 and one for a polygon that is gone.
PickerProps ==
    << [kind |-> "absent"],
       SaveNormalsToObject(<< <<1, TupleOfDirection(<<0, 1, 0>>)>>, <<7, TupleOfDirection(<<1, 0, 0>>)>> >>) >>

\* The pointer offsets (dx, dy) from the picker's centre that are tried.
PointerOffsets == {<<62, 1>>, <<300, 61>>}

AreaTypes == {"VIEW_3D", "IMAGE_EDITOR"}

Init ==
    /\ \E i \in 1..Len(PickerScenes) : mesh = PickerScenes[i].mesh /\ select = PickerScenes[i].select
    /\ mirror = Idle
    /\ \E i \in 1..Len(PickerProps) : prop = PickerProps[i]
    /\ storeop = Idle
    /\ settings \in [mirror_axis : MirrorAxes, yaw : {0}, pitch : {0}, use_snap : {TRUE}]
    /\ mode = "EDIT"
    /\ normals = [i \in 1..Cardinality(AllLoops(mesh)) |-> <<0, 0, 1>>]
    /\ op = FreshOp
    /\ handlers = 0
    /\ last = Last("none", "none", NoDirection)
    /\ BakeUnused

\* The face selection is the one of the initial state: the operator reads
\* it at invoke only.
\* The user changes the Mirror setting in the panel (at any time: the
\* picker passes the events it does not handle through to the panel).
SetMirrorAxis ==
    /\ \E a \in MirrorAxes \ {settings.mirror_axis} : settings' = [settings EXCEPT !.mirror_axis = a]
    /\ last' = Last("set_mirror_axis", "none", NoDirection)
    /\ UNCHANGED <<meshVars, bakeVars, mirror, prop, storeop, mode, normals, op, handlers>>

\* The user switches between Edit Mode and Object Mode, between sessions.
ToggleMode ==
    /\ ~op.running
    /\ mode' = IF mode = "EDIT" THEN "OBJECT" ELSE "EDIT"
    /\ last' = Last("toggle_mode", "none", NoDirection)
    /\ UNCHANGED <<meshVars, bakeVars, mirror, prop, storeop, settings, normals, op, handlers>>

\* MESH_OT_spherical_popup.invoke (poll: a mesh in Edit Mode).
Invoke ==
    /\ mode = "EDIT" /\ ~op.running
    /\ op.sessions < MaxSessions
    /\ \E area \in AreaTypes :
          LET sl == SelectedLoops(mesh, select) IN
          IF area # "VIEW_3D"
          THEN /\ last' = Last("invoke", "CANCELLED", NoDirection)
               /\ UNCHANGED <<op, handlers>>
          ELSE IF sl = {}
          THEN /\ op' = [op EXCEPT !.yaw = settings.yaw, !.pitch = settings.pitch, !.selected_loops = sl]
               /\ last' = Last("invoke", "CANCELLED", NoDirection)
               /\ UNCHANGED handlers
          ELSE /\ op' = [running |-> TRUE, handle |-> TRUE, dragging |-> FALSE,
                         yaw |-> settings.yaw, pitch |-> settings.pitch,
                         selected_loops |-> sl,
                         mirror_map |-> IF settings.mirror_axis # "NONE"
                                        THEN FindMirrorLoops(mesh, select, settings.mirror_axis, DefaultThreshold)
                                        ELSE <<>>,
                         map_axis |-> settings.mirror_axis,
                         original_normals |-> normals,
                         prop_at_invoke |-> prop,
                         sessions |-> op.sessions + 1]
               /\ handlers' = handlers + 1
               /\ last' = Last("invoke", "RUNNING_MODAL", NoDirection)
    /\ UNCHANGED <<meshVars, bakeVars, mirror, prop, storeop, settings, mode, normals>>

\* The step shared by a press inside the rectangle and a move while
\* dragging: update_angles_from_mouse, then apply_current_normal.  An
\* exception ends the operator; its draw handler stays registered.
DragTo(name, dx, dy) ==
    LET a == UpdateAnglesFromMouse(dx, dy, settings)
        o == [op EXCEPT !.dragging = TRUE, !.yaw = a.yaw, !.pitch = a.pitch]
        r == ApplyCurrentNormal(o, settings, prop, normals, mesh)
    IN /\ mode' = r.mode
       /\ prop' = r.prop
       /\ normals' = r.normals
       /\ op' = IF r.raised THEN [o EXCEPT !.running = FALSE] ELSE o
       /\ last' = Last(name, IF r.raised THEN "ERROR" ELSE "RUNNING_MODAL", r.d)
       /\ UNCHANGED <<meshVars, bakeVars, mirror, storeop, settings, handlers>>

Pass(name) ==
    /\ last' = Last(name, "PASS_THROUGH", NoDirection)
    /\ UNCHANGED <<meshVars, bakeVars, mirror, prop, storeop, settings, mode, normals, op, handlers>>

\* modal, event LEFTMOUSE PRESS at (dx, dy).
ModalLeftPress ==
    /\ op.running
    /\ \E pos \in PointerOffsets :
          IF InRect(pos[1], pos[2]) THEN DragTo("press", pos[1], pos[2]) ELSE Pass("press")

\* modal, event LEFTMOUSE RELEASE.
ModalLeftRelease ==
    /\ op.running
    /\ op' = [op EXCEPT !.dragging = FALSE]
    /\ last' = Last("release", "RUNNING_MODAL", NoDirection)
    /\ UNCHANGED <<meshVars, bakeVars, mirror, prop, storeop, settings, mode, normals, handlers>>

\* modal, event MOUSEMOVE at (dx, dy).
ModalMouseMove ==
    /\ op.running
    /\ \E pos \in PointerOffsets :
          IF op.dragging THEN DragTo("move", pos[1], pos[2])
          ELSE /\ last' = Last("move", "RUNNING_MODAL", NoDirection)
               /\ UNCHANGED <<meshVars, bakeVars, mirror, prop, storeop, settings, mode, normals, op, handlers>>

\* cleanup: the draw handler is removed if there is one.
Cleanup(o) == [op |-> [o EXCEPT !.handle = FALSE, !.running = FALSE],
               handlers |-> IF o.handle THEN handlers - 1 ELSE handlers]

\* modal, event RET or NUMPAD_ENTER PRESS.
ModalConfirm ==
    /\ op.running
    /\ settings' = [settings EXCEPT !.yaw = op.yaw, !.pitch = op.pitch]
    /\ op' = Cleanup(op).op
    /\ handlers' = Cleanup(op).handlers
    /\ last' = Last("confirm", "FINISHED", NoDirection)
    /\ UNCHANGED <<meshVars, bakeVars, mirror, prop, storeop, mode, normals>>

\* Mutant: the normals are left as the drags set them.
RestoreNothing(o, ns) == ns

\* restore_original_normals
RestoreOriginalNormals(o, ns) == IF o.original_normals = <<>> THEN ns ELSE o.original_normals

\* modal, event RIGHTMOUSE or ESC PRESS.
ModalCancel ==
    /\ op.running
    /\ normals' = RestoreOriginalNormals(op, normals)
    /\ op' = Cleanup(op).op
    /\ handlers' = Cleanup(op).handlers
    /\ last' = Last("cancel", "CANCELLED", NoDirection)
    /\ UNCHANGED <<meshVars, bakeVars, mirror, prop, storeop, settings, mode>>

\* modal, any other event.
ModalOther ==
    /\ op.running
    /\ Pass("other")

\* apply_normal_to_selection(context, normal)
ApplyNormalToSelection ==
    /\ ~op.running
    /\ \E d \in PickerDirections :
          LET sl == SelectedLoops(mesh, select) IN
          IF mode # "EDIT" \/ sl = {}
          THEN /\ last' = Last("apply_normal_to_selection", "CANCELLED", d)
               /\ UNCHANGED normals
          ELSE LET map == IF settings.mirror_axis # "NONE"
                          THEN FindMirrorLoops(mesh, select, settings.mirror_axis, DefaultThreshold)
                          ELSE <<>>
                   normals1 == SetNormals(normals, sl, d)
               IN /\ normals' = IF map # <<>>
                                THEN SetNormals(normals1, MapValues(map), MirroredNormal(d, settings.mirror_axis))
                                ELSE normals1
                  /\ last' = Last("apply_normal_to_selection", "FINISHED", d)
    /\ UNCHANGED <<meshVars, bakeVars, mirror, prop, storeop, settings, mode, op, handlers>>

Next ==
    \/ SetMirrorAxis \/ ToggleMode \/ Invoke
    \/ ModalLeftPress \/ ModalLeftRelease \/ ModalMouseMove
    \/ ModalConfirm \/ ModalCancel \/ ModalOther
    \/ ApplyNormalToSelection

Spec == Init /\ [][Next]_vars

(***************************************************************************)
(* The bake: bake_normal_map_process                                       *)
(*                                                                         *)
(* A UV coordinate is an integer number of 1/UVDen.  Pixel coordinates are *)
(* kept as integers in units of 1/Scale pixel, Scale = 2 * UVDen, so that  *)
(* uv * res and the pixel centres x + 0.5 are exact.  A colour channel is  *)
(* a fraction <<numerator, denominator>> in lowest terms.  The arithmetic  *)
(* is exact: the rounding of float32 and float64 is not modelled.          *)
(***************************************************************************)
\* UV coordinates are multiples of 1/UVDen.
UVDen == 8

\* res: the side of the pixel buffer.
Res == 4

\* The largest padding (number of dilation iterations) that is tried.
MaxPadding == 2

Scale == 2 * UVDen

Sgn(a) == IF a > 0 THEN 1 ELSE IF a < 0 THEN -1 ELSE 0
SetMax(S) == CHOOSE x \in S : \A y \in S : y <= x

RECURSIVE GCD(_, _)
GCD(a, b) == IF b = 0 THEN a ELSE GCD(b, a % b)

\* n / d in lowest terms with a positive denominator (d # 0).
Frac(n, d) ==
    LET g == GCD(Abs(n), Abs(d))
    IN <<(Sgn(d) * n) \div g, Abs(d) \div g>>
FracAdd(a, b) == Frac(a[1] * b[2] + b[1] * a[2], a[2] * b[2])
FracDivInt(a, n) == Frac(a[1], a[2] * n)

\* Mutant: the flip flag of a channel is ignored.
ChannelNoFlip(n, flip) == Frac(n + 1, 2)

\* (-n * 0.5 + 0.5) if flip else (n * 0.5 + 0.5)
Channel(n, flip) == Frac((IF flip THEN -n ELSE n) + 1, 2)

\* r, g, b of _rasterize_solid_standalone and the alpha 1.0 it writes.
FlatColor(normal, flips) ==
    <<Channel(normal[1], flips[1]), Channel(normal[2], flips[2]), Channel(normal[3], flips[3]), <<1, 1>>>>

\* pixels[:, :, 0] = 0.5, [1] = 0.5, [2] = 1.0, [3] = 1.0
Neutral == << <<1, 2>>, <<1, 2>>, <<1, 1>>, <<1, 1>> >>

\* The pixels [y, x] of a buffer of side res.
Pixels(res) == (0..(res - 1)) \X (0..(res - 1))

\* (uv.x * res, uv.y * res), in units of 1/Scale pixel.
PixelPos(pt, res) == <<2 * pt[1] * res, 2 * pt[2] * res>>

\* (x + 0.5, y + 0.5), in units of 1/Scale pixel.
Center(x, y) == <<(2 * x + 1) * UVDen, (2 * y + 1) * UVDen>>

\* int(a) of a coordinate a / s: towards zero.
Trunc(a, s) == IF a >= 0 THEN a \div s ELSE -((-a) \div s)

\* abs(denom) < 1e-10.  denom here is an integer number of Scale^-4, which is
\* more than 1e-10, so the test is true for 0 only.
Tiny(denom) == Abs(denom) < 1

\* barycentric(p0, p1, p2, p): None, or the weights (w, u, v), each kept as
\* <<numerator, denom>>.
Barycentric(p0, p1, p2, p) ==
    LET v0 == <<p1[1] - p0[1], p1[2] - p0[2]>>
        v1 == <<p2[1] - p0[1], p2[2] - p0[2]>>
        v2 == <<p[1] - p0[1], p[2] - p0[2]>>
        d00 == v0[1] * v0[1] + v0[2] * v0[2]
        d01 == v0[1] * v1[1] + v0[2] * v1[2]
        d02 == v0[1] * v2[1] + v0[2] * v2[2]
        d11 == v1[1] * v1[1] + v1[2] * v1[2]
        d12 == v1[1] * v2[1] + v1[2] * v2[2]
        denom == d00 * d11 - d01 * d01
        u == d11 * d02 - d01 * d12
        v == d00 * d12 - d01 * d02
    IN IF Tiny(denom) THEN [none |-> TRUE, w |-> <<0, 1>>, u |-> <<0, 1>>, v |-> <<0, 1>>]
       ELSE [none |-> FALSE, w |-> <<denom - u - v, denom>>, u |-> <<u, denom>>, v |-> <<v, denom>>]

\* Mutant: a weight of 0 does not count as inside.
Positive(weight) == Sgn(weight[1]) * Sgn(weight[2]) > 0

\* bc[i] >= 0
Nonneg(weight) == Sgn(weight[1]) * Sgn(weight[2]) >= 0

\* _rasterize_solid_standalone(pixels, mask, res, uvs, normal, flips): the
\* buffer [pixels, mask] it leaves.
RasterizeSolid(buf, res, uvs, normal, flips) ==
    LET p0 == PixelPos(uvs[1], res)
        p1 == PixelPos(uvs[2], res)
        p2 == PixelPos(uvs[3], res)
        xs == {p0[1], p1[1], p2[1]}
        ys == {p0[2], p1[2], p2[2]}
        min_x == Max(0, Trunc(SetMin(xs), Scale))
        max_x == Min(res - 1, Trunc(SetMax(xs), Scale) + 1)
        min_y == Max(0, Trunc(SetMin(ys), Scale))
        max_y == Min(res - 1, Trunc(SetMax(ys), Scale) + 1)
        hit == {q \in (min_y..max_y) \X (min_x..max_x) :
                   LET bc == Barycentric(p0, p1, p2, Center(q[2], q[1]))
                   IN ~bc.none /\ Nonneg(bc.w) /\ Nonneg(bc.u) /\ Nonneg(bc.v)}
        color == FlatColor(normal, flips)
    IN [pixels |-> [q \in DOMAIN buf.pixels |-> IF q \in hit THEN color ELSE buf.pixels[q]],
        mask |-> buf.mask \cup hit]

\* for i in range(1, len(loop_indices) - 1): rasterize [uvs[0], uvs[i], uvs[i + 1]]
RECURSIVE RasterizeFan(_, _, _, _, _, _)
RasterizeFan(buf, res, uvs, i, normal, flips) ==
    IF i > Len(uvs) - 2 THEN buf
    ELSE RasterizeFan(RasterizeSolid(buf, res, <<uvs[1], uvs[i + 1], uvs[i + 2]>>, normal, flips),
                      res, uvs, i + 1, normal, flips)

\* selected_poly_indices: the faces selected in Edit Mode; all polygons if
\* there is none or the object is not in Edit Mode.
SelectedPolyIndices(sel, original_mode) ==
    LET selected == IF original_mode = "EDIT" THEN {f - 1 : f \in {g \in 1..Len(sel) : sel[g]}} ELSE {}
    IN IF selected = {} THEN {f - 1 : f \in 1..Len(sel)} ELSE selected

\* for poly in mesh.polygons: ... : the buffer after the polygons from f on,
\* or the exception of nx, ny, nz = stored_normals[poly.index].
RECURSIVE RasterizePolys(_, _, _, _, _, _, _)
RasterizePolys(buf, res, uvs, f, indices, stored, flips) ==
    IF f > Len(uvs) THEN [ok |-> TRUE, buf |-> buf]
    ELSE IF (f - 1) \notin indices THEN RasterizePolys(buf, res, uvs, f + 1, indices, stored, flips)
    ELSE LET n == IF DictHas(stored, f - 1) THEN Unpack3(DictGet(stored, f - 1))
                  ELSE [ok |-> TRUE, val |-> <<0, 0, 1>>]
         IN IF ~n.ok THEN [ok |-> FALSE, buf |-> buf]
            ELSE RasterizePolys(RasterizeFan(buf, res, uvs[f], 1, n.val, flips),
                                res, uvs, f + 1, indices, stored, flips)

\* The buffer bake_normal_map_process creates: neutral, nothing written.
EmptyBuffer(res) == [pixels |-> [q \in Pixels(res) |-> Neutral], mask |-> {}]

\* [(-1, 0), (1, 0), (0, -1), (0, 1)] as (dy, dx)
Offsets == << <<-1, 0>>, <<1, 0>>, <<0, -1>>, <<0, 1>>>>

\* neighbors: the (ny, nx) inside the buffer that a mask marks, in the order
\* of the offsets.
NeighborsIn(q, res, msk) ==
    SelectSeq([i \in 1..4 |-> <<q[1] + Offsets[i][1], q[2] + Offsets[i][2]>>],
              LAMBDA n : n[1] \in 0..(res - 1) /\ n[2] \in 0..(res - 1) /\ n \in msk)

RECURSIVE SumChannel(_, _, _)
SumChannel(padded, nbrs, c) ==
    IF nbrs = <<>> THEN <<0, 1>>
    ELSE FracAdd(padded[Head(nbrs)][c], SumChannel(padded, Tail(nbrs), c))

\* [r/n, g/n, b/n, 1.0]
MeanColor(padded, nbrs) ==
    <<FracDivInt(SumChannel(padded, nbrs, 1), Len(nbrs)),
      FracDivInt(SumChannel(padded, nbrs, 2), Len(nbrs)),
      FracDivInt(SumChannel(padded, nbrs, 3), Len(nbrs)),
      <<1, 1>>>>

\* Mutant: the mask that is tested is the one that is being written.
MaskReadWritten(current_mask, new_mask) == new_mask

\* The mask that `current_mask[y, x]` and `current_mask[ny, nx]` test.
MaskRead(current_mask, new_mask) == current_mask

\* Mutant: no pixel counts as written, so every pixel is filled again.
IsWrittenNever(q, msk) == FALSE

\* current_mask[y, x]
IsWritten(q, msk) == q \in msk

\* for y in range(res): for x in range(res): ... of one padding iteration,
\* from pixel number k on; padded is changed in place, the mask in new_mask.
RECURSIVE PaddingScan(_, _, _, _, _)
PaddingScan(padded, current_mask, new_mask, res, k) ==
    IF k >= res * res THEN [padded |-> padded, current_mask |-> new_mask]
    ELSE LET q == <<k \div res, k % res>>
             read == MaskRead(current_mask, new_mask)
             nbrs == NeighborsIn(q, res, read)
         IN IF IsWritten(q, read) \/ nbrs = <<>>
            THEN PaddingScan(padded, current_mask, new_mask, res, k + 1)
            ELSE PaddingScan([padded EXCEPT ![q] = MeanColor(padded, nbrs)],
                             current_mask, new_mask \cup {q}, res, k + 1)

\* One pass of `for _ in range(padding_size)`.
PaddingIteration(padded, current_mask, res) == PaddingScan(padded, current_mask, current_mask, res, 0)

\* for _ in range(padding_size): ...
RECURSIVE PaddingLoop(_, _, _, _)
PaddingLoop(padded, current_mask, res, n) ==
    IF n = 0 THEN [padded |-> padded, current_mask |-> current_mask]
    ELSE LET r == PaddingIteration(padded, current_mask, res)
         IN PaddingLoop(r.padded, r.current_mask, res, n - 1)

\* _apply_padding_standalone(pixels, mask, padding_size): the pixels it leaves.
ApplyPadding(pixels, mask, res, padding_size) == PaddingLoop(pixels, mask, res, padding_size).padded

FracMul(a, b) == Frac(a[1] * b[1], a[2] * b[2])
FracDiv(a, b) == Frac(a[1] * b[2], a[2] * b[1])

\* Mutant: the shift repeats the edge pixels and does not wrap.
RollClamped(pixels, res, dy, dx) ==
    [q \in DOMAIN pixels |-> pixels[<<Max(0, Min(res - 1, q[1] - dy)), Max(0, Min(res - 1, q[2] - dx))>>]]

\* shifted = np.roll(pixels, (dy, dx), axis=(0, 1)): shifted[y, x] is
\* pixels[(y - dy) mod res, (x - dx) mod res].
Roll(pixels, res, dy, dx) ==
    [q \in DOMAIN pixels |-> pixels[<<(q[1] - dy) % res, (q[2] - dx) % res>>]]

\* for dx in range(-radius, radius + 1): temp += shifted, for the row dy of
\* shifts, from dx on: what it adds to channel c of pixel q.
RECURSIVE RowSum(_, _, _, _, _, _, _)
RowSum(pixels, res, radius, q, c, dy, dx) ==
    IF dx > radius THEN <<0, 1>>
    ELSE FracAdd(Roll(pixels, res, dy, dx)[q][c], RowSum(pixels, res, radius, q, c, dy, dx + 1))

\* for dy in range(-radius, radius + 1): ..., from dy on: temp[q][c].
RECURSIVE BoxSum(_, _, _, _, _, _)
BoxSum(pixels, res, radius, q, c, dy) ==
    IF dy > radius THEN <<0, 1>>
    ELSE FracAdd(RowSum(pixels, res, radius, q, c, dy, -radius),
                 BoxSum(pixels, res, radius, q, c, dy + 1))

\* weight_sum += 1.0, once for every shift.
WeightSum(radius) == (2 * radius + 1) * (2 * radius + 1)

\* pixels[:] = temp / weight_sum
BoxBlur(pixels, res, radius) ==
    LET mean(q, c) == FracDivInt(BoxSum(pixels, res, radius, q, c, -radius), WeightSum(radius))
    IN [q \in DOMAIN pixels |-> <<mean(q, 1), mean(q, 2), mean(q, 3), mean(q, 4)>>]

\* rgb * 2.0 - 1.0
Decode(c) == Frac(2 * c[1] - c[2], c[2])

\* normals * 0.5 + 0.5
Encode(n) == Frac(n[1] + n[2], 2 * n[2])

FracAbs(a) == <<Abs(a[1]), a[2]>>

\* np.linalg.norm(normals, axis=2): the square root of the sum of the
\* squares.  The buffers that are smoothed here hold directions along one
\* axis only, so the root is the length of a component; for a vector whose
\* length is none of these the CHOOSE has no value.
Norm(normal) ==
    LET squares == FracAdd(FracAdd(FracMul(normal[1], normal[1]), FracMul(normal[2], normal[2])),
                           FracMul(normal[3], normal[3]))
    IN CHOOSE r \in {FracAbs(normal[i]) : i \in 1..3} : FracMul(r, r) = squares

\* Mutant: every norm is replaced by 1.0, so nothing is scaled.
NormAlwaysOne(norm) == <<1, 1>>

\* norms[norms == 0] = 1.0
NormOrOne(norm) == IF norm[1] = 0 THEN <<1, 1>> ELSE norm

\* The re-normalization of one pixel: rgb from normals / norms, alpha kept.
Renormalize(color) ==
    LET normal == <<Decode(color[1]), Decode(color[2]), Decode(color[3])>>
        norm == NormOrOne(Norm(normal))
    IN <<Encode(FracDiv(normal[1], norm)), Encode(FracDiv(normal[2], norm)),
         Encode(FracDiv(normal[3], norm)), color[4]>>

\* One pass of `for _ in range(iterations)` of _apply_smoothing_standalone.
SmoothingPass(pixels, res, radius) ==
    LET blurred == BoxBlur(pixels, res, radius)
    IN [q \in DOMAIN pixels |-> Renormalize(blurred[q])]

\* _apply_smoothing_standalone(pixels, radius, iterations): the pixels it leaves.
RECURSIVE ApplySmoothing(_, _, _, _)
ApplySmoothing(pixels, res, radius, iterations) ==
    IF iterations <= 0 THEN pixels
    ELSE ApplySmoothing(SmoothingPass(pixels, res, radius), res, radius, iterations - 1)

\* The UV layouts that are baked, one polygon after the other: two triangles
\* that share the diagonal of the unit square; a quad over the unit square;
\* a triangle in a corner, a collinear polygon and a triangle one pixel
\* away from the first; a quad in the middle under a triangle that leaves the unit square;
\* two quads that share an edge, in the lower left quarter.
BakeLayouts ==
    << << << <<0, 0>>, <<8, 0>>, <<0, 8>> >>, << <<8, 0>>, <<8, 8>>, <<0, 8>> >> >>,
       << << <<0, 0>>, <<8, 0>>, <<8, 8>>, <<0, 8>> >> >>,
       << << <<0, 0>>, <<4, 0>>, <<0, 4>> >>, << <<0, 0>>, <<4, 4>>, <<8, 8>> >>,
          << <<6, 0>>, <<8, 0>>, <<6, 2>> >> >>,
       << << <<2, 2>>, <<6, 2>>, <<6, 6>>, <<2, 6>> >>, << <<-1, 3>>, <<9, 3>>, <<5, 9>> >> >>,
       << << <<0, 0>>, <<2, 0>>, <<2, 4>>, <<0, 4>> >>, << <<2, 0>>, <<4, 0>>, <<4, 4>>, <<2, 4>> >> >> >>

\* The mesh of a layout: every corner at its UV position in the plane z = 0.
Unwrapped(layout) == [f \in 1..Len(layout) |-> [j \in 1..Len(layout[f]) |-> <<layout[f][j][1], layout[f][j][2], 0>>]]

\* The stores that are baked: none; entries for polygons 0 and 1; an entry
\* for polygon 1 and a stale one; an entry that is not three numbers and a
\* stale one; then
\* three stores whose directions all lie along z: +z for polygon 0; -z, a
\* vector of length 2 and a stale entry; the zero vector.
BakeProps ==
    << [kind |-> "absent"],
       SaveNormalsToObject(<< <<0, TupleOfDirection(<<1, 0, 0>>)>>, <<1, TupleOfDirection(<<0, -1, 0>>)>> >>),
       SaveNormalsToObject(<< <<1, TupleOfDirection(<<0, 1, 1>>)>>, <<7, TupleOfDirection(<<1, 0, 0>>)>> >>),
       SaveNormalsToObject(<< <<0, <<PyNum(0), PyNum(1)>>>>, <<7, TupleOfDirection(<<1, 0, 0>>)>> >>),
       SaveNormalsToObject(<< <<0, TupleOfDirection(<<0, 0, 1>>)>> >>),
       SaveNormalsToObject(<< <<0, TupleOfDirection(<<0, 0, -1>>)>>, <<1, TupleOfDirection(<<0, 0, 2>>)>>,
                              <<7, TupleOfDirection(<<0, 0, -1>>)>> >>),
       SaveNormalsToObject(<< <<0, TupleOfDirection(<<0, 0, 0>>)>> >>) >>

\* flip_r, flip_g, flip_b
FlipSets == {<<FALSE, FALSE, FALSE>>, <<TRUE, FALSE, TRUE>>}

\* The largest blur radius and the largest number of blur passes that are run.
MaxRadius == 2
MaxIterations == 2

\* max of bake_smooth_radius (scene settings) and of smooth_radius (the
\* properties of MESH_OT_bake_normal_map).
SettingsRadiusMax == 20
OperatorRadiusMax == 10

\* Every direction of the store lies along z, so that every length that the
\* smoothing takes a square root of is rational.
AlongZ(stored) ==
    \A i \in 1..Len(stored) :
        LET n == Unpack3(stored[i][2]) IN n.ok /\ n.val[1] = 0 /\ n.val[2] = 0

\* The bake settings of the scene that are tried.  Without smoothing the
\* radius is 1 or the first one above the operator's maximum; with smoothing
\* every radius and number of passes up to the bounds.
BakeSettings ==
    {[bake_resolution |-> Res, bake_padding |-> p, bake_flip |-> f,
      bake_use_smoothing |-> u, bake_smooth_radius |-> r, bake_smooth_iterations |-> i] :
         p \in 0..MaxPadding, f \in FlipSets, u \in BOOLEAN,
         r \in (1..MaxRadius) \cup {OperatorRadiusMax + 1}, i \in 1..MaxIterations}

\* The settings that are plain: no padding, no flip, no smoothing, radius 1.
Plain(set) ==
    /\ set.bake_padding = 0 /\ set.bake_flip = <<FALSE, FALSE, FALSE>>
    /\ ~set.bake_use_smoothing /\ set.bake_smooth_radius = 1

\* The combinations that are explored.  A buffer is smoothed when its
\* directions lie along z, in Edit Mode, with no flip and a radius within the
\* bound.
\* Without smoothing there is one pass and the radius is 1, or the first one
\* above the operator's maximum with no padding and no flip.
Explored(set, stored, original_mode) ==
    IF set.bake_use_smoothing
    THEN /\ AlongZ(stored) /\ original_mode = "EDIT"
         /\ set.bake_flip = <<FALSE, FALSE, FALSE>> /\ set.bake_smooth_radius <= MaxRadius
    ELSE /\ set.bake_smooth_iterations = 1
         /\ \/ set.bake_smooth_radius = 1
            \/ /\ set.bake_smooth_radius = OperatorRadiusMax + 1
               /\ set.bake_padding = 0 /\ set.bake_flip = <<FALSE, FALSE, FALSE>>

PreviewName == "Normal Map Preview"
ExportName == "NormalMapBake"

\* An earlier preview of another size, shown in an image editor of a second window.
OldPreview ==
    [data |-> << [name |-> PreviewName, size |-> Res \div 2, pixels |-> EmptyBuffer(Res \div 2).pixels] >>,
     shown |-> {PreviewName}, windows |-> 2]

BakeInit ==
    /\ \E i \in 1..Len(BakeLayouts) :
          /\ mesh = Unwrapped(BakeLayouts[i])
          /\ uv \in {[layer |-> "active", data |-> BakeLayouts[i]], NoUV}
    /\ select \in Selections(mesh)
    /\ mode \in {"EDIT", "OBJECT"}
    /\ \E i \in 1..Len(BakeProps) : prop = BakeProps[i]
    /\ settings \in BakeSettings
    /\ Explored(settings, LoadNormalsFromObject(prop), mode)
    /\ images \in {NoImages, OldPreview}
    /\ (uv.layer = "none" \/ images = OldPreview) => Plain(settings)
    /\ mirror = Idle
    /\ storeop = Idle
    /\ normals = <<>>
    /\ op = Idle
    /\ handlers = 0
    /\ last = Idle
    /\ bake = Idle
    /\ toon = NoBatch

\* The value an IntProperty(min=lo, max=hi) keeps when v is assigned to it.
ClampInt(v, lo, hi) == Max(lo, Min(hi, v))

\* MESH_OT_bake_normal_map.poll, for the active mesh object.
ExportPoll == uv.layer # "none"

\* MESH_OT_bake_normal_map.invoke: the operator's properties are synced from
\* the scene settings, each within the range of its declaration, and the
\* file browser opens.
ExportInvoke ==
    /\ bake.st = "idle" /\ ExportPoll
    /\ bake' = [st |-> "file_select",
                props |-> [resolution |-> settings.bake_resolution,
                           padding |-> ClampInt(settings.bake_padding, 0, 64),
                           flip |-> settings.bake_flip,
                           use_smoothing |-> settings.bake_use_smoothing,
                           smooth_radius |-> ClampInt(settings.bake_smooth_radius, 1, OperatorRadiusMax),
                           smooth_iterations |-> ClampInt(settings.bake_smooth_iterations, 1, 10)]]
    /\ UNCHANGED <<meshVars, uv, images, toon, mirror, prop, storeop, pickerVars>>

\* Between invoke and execute the file browser is open and the host lets the
\* user edit the mesh: its UV layers are removed.  (Tried for plain settings.)
RemoveUVLayers ==
    /\ bake.st = "file_select" /\ uv.layer = "active"
    /\ Plain(settings) /\ images = NoImages
    /\ uv' = NoUV
    /\ UNCHANGED <<meshVars, bake, images, toon, mirror, prop, storeop, pickerVars>>

\* Mutant: an active UV layer is always found.
NoActiveUVNever(u) == FALSE

\* uv_layer = mesh.uv_layers.active; uv_layer is None
NoActiveUV(u) == u.layer = "none"

\* bake_normal_map_process(context, obj, res, padding, flip_r, flip_g, flip_b,
\* use_smooth, smooth_rad, smooth_iter), called by an operator, from its entry
\* to the end of the loop over the polygons (or to its early return without a
\* UV layer, or to the exception of the unpacking).
BakeRasterize(caller, res, padding, flips, use_smooth, smooth_rad, smooth_iter) ==
    LET args == [original_mode |-> mode, res |-> res, padding |-> padding, flips |-> flips,
                 use_smooth |-> use_smooth, smooth_rad |-> smooth_rad, smooth_iter |-> smooth_iter]
        empty == EmptyBuffer(res)
        indices == SelectedPolyIndices(select, mode)
        r == RasterizePolys(empty, res, uv.data, 1, indices, LoadNormalsFromObject(prop), flips)
        arrays(st, buf) ==
            [st |-> st, caller |-> caller, args |-> args, indices |-> indices,
             pixels |-> buf.pixels, mask |-> buf.mask,
             padded |-> buf.pixels, current_mask |-> buf.mask, iter |-> 0,
             pass |-> 0, before |-> buf.pixels, rasterized |-> buf.pixels]
    IN /\ IF NoActiveUV(uv)
          THEN /\ bake' = arrays("returned_none", empty)
               /\ mode' = mode
          ELSE /\ bake' = arrays(IF r.ok THEN "rasterized" ELSE "raised", r.buf)
               /\ mode' = "OBJECT"
       /\ UNCHANGED <<meshVars, uv, images, toon, mirror, prop, storeop, settings, normals, op, handlers, last>>

\* MESH_OT_bake_normal_map.execute, up to its call of the bake: the arguments
\* are the operator's properties.
ExportExecute ==
    /\ bake.st = "file_select"
    /\ BakeRasterize("export", bake.props.resolution, bake.props.padding, bake.props.flip,
                     bake.props.use_smoothing, bake.props.smooth_radius, bake.props.smooth_iterations)

\* MESH_OT_preview_bake_normal_map.execute, up to its call of the bake: the
\* arguments are the scene settings.  The operator has no poll.
PreviewExecute ==
    /\ bake.st = "idle"
    /\ BakeRasterize("preview", settings.bake_resolution, settings.bake_padding, settings.bake_flip,
                     settings.bake_use_smoothing, settings.bake_smooth_radius,
                     settings.bake_smooth_iterations)

\* if pixels is None: return {'CANCELLED'}
BakeCancelled ==
    /\ bake.st = "returned_none"
    /\ bake' = [bake EXCEPT !.st = "cancelled"]
    /\ UNCHANGED <<meshVars, uv, images, toon, mirror, prop, storeop, pickerVars>>

\* Mutant: the dilation is entered whatever the padding.
PaddingAlways(padding) == TRUE

\* if padding > 0:
PaddingWanted(padding) == padding > 0

\* if padding > 0: _apply_padding_standalone: padded = pixels.copy(),
\* current_mask = mask.copy().
BakeEnterPadding ==
    /\ bake.st = "rasterized" /\ PaddingWanted(bake.args.padding)
    /\ bake' = [bake EXCEPT !.st = "padding", !.padded = bake.pixels, !.current_mask = bake.mask, !.iter = 0]
    /\ UNCHANGED <<meshVars, uv, images, toon, mirror, prop, storeop, pickerVars>>

\* One iteration of the loop of _apply_padding_standalone.
BakePaddingIteration ==
    /\ bake.st = "padding" /\ bake.iter < bake.args.padding
    /\ LET r == PaddingIteration(bake.padded, bake.current_mask, bake.args.res)
       IN bake' = [bake EXCEPT !.padded = r.padded, !.current_mask = r.current_mask, !.iter = bake.iter + 1]
    /\ UNCHANGED <<meshVars, uv, images, toon, mirror, prop, storeop, pickerVars>>

\* pixels[:] = padded
BakeLeavePadding ==
    /\ bake.st = "padding" /\ bake.iter = bake.args.padding
    /\ bake' = [bake EXCEPT !.st = "padded", !.pixels = bake.padded]
    /\ UNCHANGED <<meshVars, uv, images, toon, mirror, prop, storeop, pickerVars>>

\* padding = 0: the buffer is left as rasterized.
BakeSkipPadding ==
    /\ bake.st = "rasterized" /\ ~PaddingWanted(bake.args.padding)
    /\ bake' = [bake EXCEPT !.st = "padded"]
    /\ UNCHANGED <<meshVars, uv, images, toon, mirror, prop, storeop, pickerVars>>

\* if use_smooth: _apply_smoothing_standalone(pixels, smooth_rad, smooth_iter)
BakeEnterSmoothing ==
    /\ bake.st = "padded" /\ bake.args.use_smooth
    /\ bake' = [bake EXCEPT !.st = "smoothing", !.pass = 0]
    /\ UNCHANGED <<meshVars, uv, images, toon, mirror, prop, storeop, pickerVars>>

\* One pass of the loop of _apply_smoothing_standalone; before keeps the
\* pixels the pass started from.
BakeSmoothingPass ==
    /\ bake.st = "smoothing" /\ bake.pass < bake.args.smooth_iter
    /\ bake' = [bake EXCEPT !.pixels = SmoothingPass(bake.pixels, bake.args.res, bake.args.smooth_rad),
                            !.before = bake.pixels, !.pass = bake.pass + 1]
    /\ UNCHANGED <<meshVars, uv, images, toon, mirror, prop, storeop, pickerVars>>

\* The loop of _apply_smoothing_standalone ends.
BakeLeaveSmoothing ==
    /\ bake.st = "smoothing" /\ bake.pass >= bake.args.smooth_iter
    /\ bake' = [bake EXCEPT !.st = "smoothed"]
    /\ UNCHANGED <<meshVars, uv, images, toon, mirror, prop, storeop, pickerVars>>

\* use_smooth is False: the buffer is left as it is.
BakeSkipSmoothing ==
    /\ bake.st = "padded" /\ ~bake.args.use_smooth
    /\ bake' = [bake EXCEPT !.st = "smoothed"]
    /\ UNCHANGED <<meshVars, uv, images, toon, mirror, prop, storeop, pickerVars>>

\* if original_mode == 'EDIT': mode_set(mode='EDIT'); return pixels, res, res
BakeReturn ==
    /\ bake.st = "smoothed"
    /\ bake' = [bake EXCEPT !.st = "returned"]
    /\ mode' = bake.args.original_mode
    /\ UNCHANGED <<meshVars, uv, images, toon, mirror, prop, storeop, settings, normals, op, handlers, last>>

\* The rest of MESH_OT_bake_normal_map.execute: a new image is created, filled
\* and saved.
ExportSave ==
    /\ bake.st = "returned" /\ bake.caller = "export"
    /\ images' = [images EXCEPT !.data = Append(images.data,
                      [name |-> ExportName, size |-> bake.args.res, pixels |-> bake.pixels])]
    /\ bake' = [bake EXCEPT !.st = "finished"]
    /\ UNCHANGED <<meshVars, uv, toon, mirror, prop, storeop, pickerVars>>

\* The rest of MESH_OT_preview_bake_normal_map.execute: the preview image is
\* created, or found and scaled, and filled; if no image editor shows it, a
\* new window is opened whose area becomes an image editor that shows it.
PreviewShow ==
    /\ bake.st = "returned" /\ bake.caller = "preview"
    /\ LET img == [name |-> PreviewName, size |-> bake.args.res, pixels |-> bake.pixels]
           found == {k \in 1..Len(images.data) : images.data[k].name = PreviewName}
           data == IF found = {} THEN Append(images.data, img)
                   ELSE [images.data EXCEPT ![SetMin(found)] = img]
           found_existing == PreviewName \in images.shown
       IN images' = IF found_existing THEN [images EXCEPT !.data = data]
                    ELSE [data |-> data, shown |-> images.shown \cup {PreviewName},
                          windows |-> images.windows + 1]
    /\ bake' = [bake EXCEPT !.st = "finished"]
    /\ UNCHANGED <<meshVars, uv, toon, mirror, prop, storeop, pickerVars>>

BakeNext ==
    \/ ExportInvoke \/ RemoveUVLayers \/ ExportExecute \/ PreviewExecute \/ BakeCancelled
    \/ BakeEnterPadding \/ BakePaddingIteration \/ BakeLeavePadding \/ BakeSkipPadding
    \/ BakeEnterSmoothing \/ BakeSmoothingPass \/ BakeLeaveSmoothing \/ BakeSkipSmoothing
    \/ BakeReturn \/ ExportSave \/ PreviewShow

SpecBake == BakeInit /\ [][BakeNext]_vars

(***************************************************************************)
(* update_toon_preview_batch                                               *)
(*                                                                         *)
(* The triangles of mesh.loop_triangles are taken to be the fan of every   *)
(* polygon.  A normal and the light direction are kept as integer vectors  *)
(* of any length: normalizing them does not change the sign of their dot   *)
(* product, which is all the colour depends on.                            *)
(***************************************************************************)
\* (b - a) x (c - a)
Cross3(a, b, c) ==
    LET u == VecSub(b, a)
        v == VecSub(c, a)
    IN <<u[2] * v[3] - u[3] * v[2], u[3] * v[1] - u[1] * v[3], u[1] * v[2] - u[2] * v[1]>>

Dot3(a, b) == a[1] * b[1] + a[2] * b[2] + a[3] * b[3]

\* mesh.loop_triangles: [polygon_index, vertices], polygon after polygon.
RECURSIVE LoopTriangles(_, _)
LoopTriangles(faces, f) ==
    IF f > Len(faces) THEN <<>>
    ELSE [i \in 1..(Len(faces[f]) - 2) |->
             [polygon_index |-> f - 1, vertices |-> <<faces[f][1], faces[f][i + 1], faces[f][i + 2]>>]]
         \o LoopTriangles(faces, f + 1)

\* intensity = 1.0 if dot > 0.0 else 0.1; color = (intensity, intensity, intensity, 1.0)
ToonColor(normal, light_dir) ==
    LET intensity == IF Dot3(normal, light_dir) > 0 THEN <<1, 1>> ELSE <<1, 10>>
    IN <<intensity, intensity, intensity, <<1, 1>>>>

\* for tri in mesh.loop_triangles: ..., from triangle k on: the vertices and
\* colours that are appended, or the exception of the unpacking.
RECURSIVE ToonScan(_, _, _, _)
ToonScan(tris, k, stored, light_dir) ==
    IF k > Len(tris) THEN [ok |-> TRUE, vertices |-> <<>>, colors |-> <<>>]
    ELSE LET tri == tris[k]
             n == IF DictHas(stored, tri.polygon_index) THEN Unpack3(DictGet(stored, tri.polygon_index))
                  ELSE [ok |-> TRUE, val |-> Cross3(tri.vertices[1], tri.vertices[2], tri.vertices[3])]
             rest == ToonScan(tris, k + 1, stored, light_dir)
             color == ToonColor(n.val, light_dir)
         IN IF ~n.ok \/ ~rest.ok THEN [ok |-> FALSE, vertices |-> <<>>, colors |-> <<>>]
            ELSE [ok |-> TRUE, vertices |-> tri.vertices \o rest.vertices,
                  colors |-> <<color, color, color>> \o rest.colors]

\* The light directions that are tried.
LightDirs == {<<0, 0, 1>>, <<1, 0, -1>>, <<0, 1, 0>>}

ToonInit ==
    /\ \E i \in 0..Len(BakeLayouts) : mesh = IF i = 0 THEN <<>> ELSE Unwrapped(BakeLayouts[i])
    /\ select = [f \in 1..Len(mesh) |-> FALSE]
    /\ \E i \in 1..Len(BakeProps) : prop = BakeProps[i]
    /\ settings \in [toon_light_dir : LightDirs]
    /\ mode \in {"EDIT", "OBJECT"}
    /\ mirror = Idle
    /\ storeop = Idle
    /\ normals = <<>>
    /\ op = Idle
    /\ handlers = 0
    /\ last = Idle
    /\ uv = NoUV
    /\ bake = Idle
    /\ images = NoImages
    /\ toon = NoBatch

\* update_toon_preview_batch(context), for an active mesh object.
UpdateToonPreviewBatch ==
    /\ toon.st = "idle"
    /\ LET r == ToonScan(LoopTriangles(mesh, 1), 1, LoadNormalsFromObject(prop), settings.toon_light_dir)
       IN toon' = IF ~r.ok THEN [toon EXCEPT !.st = "raised"]
                  ELSE IF r.vertices = <<>> THEN [toon EXCEPT !.st = "returned"]
                  ELSE [st |-> "updated", batch |-> [pos |-> r.vertices, color |-> r.colors]]
    /\ UNCHANGED <<meshVars, uv, bake, images, mirror, prop, storeop, pickerVars>>

ToonNext == UpdateToonPreviewBatch

SpecToon == ToonInit /\ [][ToonNext]_vars

(***************************************************************************)
(* Claims about the normal store (checked under SpecStore)                 *)
(***************************************************************************)
\* The property holds a mapping from integer polygon index to exactly three numbers.
WellFormedProp(p) ==
    /\ p.kind = "text"
    /\ Loads(p.toks).ok
    /\ Loads(p.toks).val.t = "dict"
    /\ \A i \in 1..Len(Loads(p.toks).val.v) :
          LET e == Loads(p.toks).val.v[i]
          IN /\ StrToInt(e[1]).ok
             /\ e[2].t = "list"
             /\ Len(e[2].v) = 3
             /\ \A j \in 1..3 : e[2].v[j].t = "num"

\* C4 as stated: load_normals_from_object returns an empty mapping whenever
\* the property is absent, not parseable or malformed, and so every value
\* of a loaded store is a 3-component vector a consumer can unpack.
C4_AsStated ==
    storeop.st = "loaded" =>
       /\ (~WellFormedProp(prop) => storeop.ret = <<>>)
       /\ \A i \in 1..Len(storeop.ret) : Unpack3(storeop.ret[i][2]).ok

\* Two stores have the same keys and the same components per key.
SameStore(a, b) ==
    /\ DictKeys(a) = DictKeys(b)
    /\ Len(a) = Cardinality(DictKeys(a))
    /\ \A k \in DictKeys(a) : DictGet(a, k) = DictGet(b, k)

\* C5: after save_normals_to_object(obj, store), whatever the property held
\* before (an earlier save included), load_normals_from_object(obj) returns
\* exactly the keys of store with the same three components per key.
C5_SaveLoadIdentity ==
    storeop.hasSaved =>
       /\ SameStore(LoadNormalsFromObject(prop), storeop.saved)
       /\ (storeop.st = "loaded" => SameStore(storeop.ret, storeop.saved))

\* C5 witness: a load that returned a saved store with two entries, one of
\* them under a negative key and one under a key of two digits.
C5_Witness ==
    /\ storeop.st = "loaded"
    /\ storeop.hasSaved
    /\ Len(storeop.ret) = 2
    /\ DictKeys(storeop.ret) = {-3, 12}

(***************************************************************************)
(* Claims about find_mirror_loops (checked under SpecMirror)               *)
(***************************************************************************)
Returned == mirror.st = "returned"

\* Every write mirror_map[key] = target of the call, over all selected faces.
AllEntries(m, sel, axis, thr) ==
    UNION {FaceEntries(m, sel, f, axis, thr) : f \in {g \in 1..Len(m) : sel[g]}}

\* C1: the map returned by find_mirror_loops never maps a corner to itself,
\* no key is written with two different targets, and every key is a corner
\* of a selected face for which a mirror face was found.
C1_MirrorMapWellFormed ==
    Returned =>
       /\ \A l \in DOMAIN mirror.map :
             /\ mirror.map[l] # l
             /\ \E f \in 1..Len(mesh) :
                   select[f] /\ l \in LoopsOf(mesh, f) /\ mirror.match[f] # 0
       /\ \A e1, e2 \in AllEntries(mesh, select, mirror.axis, mirror.threshold) :
             e1[1] = e2[1] => e1 = e2
       /\ DOMAIN mirror.map = {e[1] : e \in AllEntries(mesh, select, mirror.axis, mirror.threshold)}

\* C1 witness: a call that returned a map with at least two keys while some
\* selected face found no mirror face.
C1_Witness ==
    /\ Returned
    /\ Cardinality(DOMAIN mirror.map) >= 2
    /\ \E f \in DOMAIN mirror.match : mirror.match[f] = 0

\* g's vertex positions are f's with the axis coordinate negated.
IsMirrorFace(f, g, axis) ==
    /\ Len(f) = Len(g)
    /\ {Negate(f[i], axis) : i \in 1..Len(f)} = {g[i] : i \in 1..Len(g)}

\* The mesh is perfectly symmetric about the axis.
Symmetric(m, axis) == \A f \in 1..Len(m) : \E g \in 1..Len(m) : IsMirrorFace(m[f], m[g], axis)

\* Every corner of every selected face has a target, and the target's
\* position is the reflected source position within the threshold.
AllSelectedCornersMapped ==
    \A f \in 1..Len(mesh) : select[f] =>
       \A l \in LoopsOf(mesh, f) :
          /\ l \in DOMAIN mirror.map
          /\ FracLess(VertDist2(LoopCo(mesh, mirror.map[l]), Negate(LoopCo(mesh, l), mirror.axis)),
                      <<mirror.threshold * mirror.threshold, 1>>)

\* C2 as stated: for a perfectly symmetric mesh and EVERY selection of its
\* faces, every corner of every selected face is mapped to the reflected
\* corner.
C2_AsStated == (Returned /\ Symmetric(mesh, mirror.axis)) => AllSelectedCornersMapped

DistinctCentres(m) ==
    \A f, g \in 1..Len(m) :
       f # g => ~FracEq(CenterDist2(CalcCenterMedian(m[f]), CalcCenterMedian(m[g])), <<0, 1>>)

MirrorsUnselected(m, sel, axis) ==
    \A f \in 1..Len(m) : sel[f] => \E g \in 1..Len(m) : ~sel[g] /\ IsMirrorFace(m[f], m[g], axis)

\* C2 amended: for a perfectly symmetric mesh whose faces have pairwise
\* distinct centres, and every selection in which the mirror image of each
\* selected face is an unselected face, every corner of every selected face
\* is mapped to exactly one target, at the reflected position within the
\* threshold.
C2_SymmetricMeshMapped ==
    (/\ Returned
     /\ Symmetric(mesh, mirror.axis)
     /\ DistinctCentres(mesh)
     /\ MirrorsUnselected(mesh, select, mirror.axis)) => AllSelectedCornersMapped

\* C2 witness: two mirrored triangles, one selected, give exactly 3 entries.
C2_Witness ==
    /\ Returned
    /\ Symmetric(mesh, mirror.axis) /\ DistinctCentres(mesh)
    /\ MirrorsUnselected(mesh, select, mirror.axis)
    /\ Len(mesh) = 2 /\ select[1] /\ ~select[2]
    /\ Cardinality(DOMAIN mirror.map) = 3

\* The nearest element of a sequence of candidates with its distance below
\* the threshold, the first one among equally near ones; none: the value no.
\* d2[k] is the squared distance of candidate k.
FirstNearest(n, d2, thr, no) ==
    IF \E k \in 1..n : FracLess(d2[k], <<thr * thr, 1>>)
    THEN CHOOSE k \in 1..n :
            /\ FracLess(d2[k], <<thr * thr, 1>>)
            /\ \A h \in 1..n : ~FracLess(d2[h], d2[k])
            /\ \A h \in 1..(k - 1) : FracLess(d2[k], d2[h])
    ELSE no

ExpectedMatch(m, sel, f, axis, thr) ==
    LET others == OtherFaces(m, sel)
        mc == <<Negate(VecSum(m[f]), axis), Len(m[f])>>
        k == FirstNearest(Len(others),
                          [i \in 1..Len(others) |-> CenterDist2(<<VecSum(m[others[i]]), Len(m[others[i]])>>, mc)],
                          thr, 0)
    IN IF k = 0 THEN 0 ELSE others[k]

ExpectedTarget(m, g, co, axis, thr) ==
    LET j == FirstNearest(Len(m[g]), [i \in 1..Len(m[g]) |-> VertDist2(m[g][i], Negate(co, axis))], thr, 0)
    IN IF j = 0 THEN -1 ELSE LoopIndex(m, g, j)

\* C3: the face chosen for a selected face is the unselected face whose
\* centre is nearest to the reflected centre, the first in face order among
\* equally near ones, and only if that distance is strictly below the
\* threshold (else the face is skipped); the target corner is chosen among
\* the matched face's corners by the same rule, and a corner without a
\* target is omitted.
C3_NearestFirstStrict ==
    Returned =>
       \A f \in 1..Len(mesh) : select[f] =>
          LET g == ExpectedMatch(mesh, select, f, mirror.axis, mirror.threshold)
          IN /\ mirror.match[f] = g
             /\ \A l \in LoopsOf(mesh, f) :
                   LET t == IF g = 0 THEN -1
                            ELSE ExpectedTarget(mesh, g, LoopCo(mesh, l), mirror.axis, mirror.threshold)
                   IN IF t = -1 THEN l \notin DOMAIN mirror.map
                      ELSE l \in DOMAIN mirror.map /\ mirror.map[l] = t

\* C3 witness: a selected face with two equally near candidates below the
\* threshold, matched to the first of them, one of whose corners has its
\* nearest candidate corner exactly at the threshold and is omitted.
C3_Witness ==
    /\ Returned
    /\ \E f \in 1..Len(mesh) :
          /\ select[f]
          /\ mirror.match[f] # 0
          /\ \E h \in 1..Len(mesh) :
                /\ ~select[h] /\ h > mirror.match[f]
                /\ FracEq(CenterDist2(CalcCenterMedian(mesh[h]), MirrorCenter(mesh[f], mirror.axis)),
                          CenterDist2(CalcCenterMedian(mesh[mirror.match[f]]), MirrorCenter(mesh[f], mirror.axis)))
          /\ \E l \in LoopsOf(mesh, f) :
                /\ l \notin DOMAIN mirror.map
                /\ \E j \in 1..Len(mesh[mirror.match[f]]) :
                      FracEq(VertDist2(mesh[mirror.match[f]][j], Negate(LoopCo(mesh, l), mirror.axis)),
                             <<mirror.threshold * mirror.threshold, 1>>)

(***************************************************************************)
(* Claims about the picker (checked under Spec)                            *)
(***************************************************************************)
\* The step that led to this state ran apply_current_normal with direction last.d.
ApplyStep == last.op \in {"press", "move"} /\ last.d # NoDirection

\* The step ran apply_current_normal to its end.
ApplyCompleted == ApplyStep /\ last.result = "RUNNING_MODAL"

Targets(o) == MapValues(o.mirror_map)
Touched(o) == o.selected_loops \cup Targets(o)
PolysOf(m, loops) == {f \in 1..Len(m) : LoopsOf(m, f) \cap loops # {}}

\* C6: after one apply step of the picker with direction d, every selected
\* corner has Direction d, every mirror target has d with the component of
\* the MirrorMap's axis negated, and every other corner keeps its Direction.
C6_AsStated ==
    [][ApplyStep' =>
          /\ \A l \in op.selected_loops : normals'[l + 1] = last'.d
          /\ \A l \in Targets(op) : normals'[l + 1] = Negate(last'.d, op.map_axis)
          /\ \A l \in AllLoops(mesh) \ Touched(op) : normals'[l + 1] = normals[l + 1]]_vars

\* C7: after apply_current_normal the store has an entry for every polygon
\* with a touched corner, all corners of such a polygon carry the stored
\* Direction, and the entries of the other polygons are unchanged.
C7_AsStated ==
    [][ApplyStep' =>
          LET old == LoadNormalsFromObject(prop)
              new == LoadNormalsFromObject(prop')
              polys == PolysOf(mesh, Touched(op))
          IN /\ \A f \in polys :
                   /\ DictHas(new, f - 1)
                   /\ \A l \in LoopsOf(mesh, f) : TupleOfDirection(normals'[l + 1]) = DictGet(new, f - 1)
             /\ \A k \in (DictKeys(old) \cup DictKeys(new)) \ {f - 1 : f \in polys} :
                   /\ DictHas(old, k) /\ DictHas(new, k)
                   /\ DictGet(old, k) = DictGet(new, k)]_vars

\* One step of the picker, as C8 requires it.
AllOrNothingStep ==
        /\ (last'.op = "invoke" /\ SelectedLoops(mesh, select) = {}) =>
             /\ last'.result = "CANCELLED"
             /\ UNCHANGED <<normals, prop, handlers, mode>>
             /\ op'.running = op.running /\ op'.handle = op.handle
        /\ (last'.op = "apply_normal_to_selection" /\ (SelectedLoops(mesh, select) = {} \/ mode # "EDIT")) =>
             /\ last'.result = "CANCELLED"
             /\ UNCHANGED <<normals, prop, handlers, mode, op>>
        /\ (last'.op = "apply_normal_to_selection" /\ last'.result = "FINISHED") =>
             /\ \A l \in SelectedLoops(mesh, select) : normals'[l + 1] = last'.d
             /\ UNCHANGED prop
        /\ ApplyCompleted' =>
             \E md \in {last'.d} \cup {Negate(last'.d, a) : a \in Axes} :
                /\ \A l \in op.selected_loops : normals'[l + 1] = last'.d
                /\ \A l \in Targets(op) : normals'[l + 1] = md
                /\ \A f \in PolysOf(mesh, op.selected_loops) :
                      /\ DictHas(LoadNormalsFromObject(prop'), f - 1)
                      /\ DictGet(LoadNormalsFromObject(prop'), f - 1) = TupleOfDirection(last'.d)
                /\ \A f \in PolysOf(mesh, Targets(op)) :
                      /\ DictHas(LoadNormalsFromObject(prop'), f - 1)
                      /\ DictGet(LoadNormalsFromObject(prop'), f - 1) = TupleOfDirection(md)
        /\ (ApplyStep' /\ ~ApplyCompleted') => UNCHANGED <<normals, prop>>

\* C8: an edit requested with no selected face, or by
\* apply_normal_to_selection outside Edit Mode, returns CANCELLED and changes
\* no corner Direction, no store entry, no draw handler and no modal state;
\* an apply step that completes sets every selected corner to the direction,
\* every mirror target to one mirrored direction and the store entry of
\* every polygon with a touched corner; one that raises writes nothing.
C8_AllOrNothing == [][AllOrNothingStep]_vars

\* An invoke with no selected face has been cancelled.
C8_Witness ==
    /\ last.op = "invoke" /\ last.result = "CANCELLED"
    /\ SelectedLoops(mesh, select) = {}

\* An apply step with a mirror target has completed.
C8_WitnessCompleted == ApplyCompleted /\ Targets(op) # {}

\* An apply step has raised.
C8_WitnessRaised == ApplyStep /\ ~ApplyCompleted

(***************************************************************************)
(* Claims about the bake (checked under SpecBake)                          *)
(***************************************************************************)
\* Twice the signed area of the triangle (a, b, c).
Cross(a, b, c) == (b[1] - a[1]) * (c[2] - a[2]) - (b[2] - a[2]) * (c[1] - a[1])

\* The fan triangles (0, i, i + 1) of a polygon.
FanTriangles(poly) == {<<poly[1], poly[i + 1], poly[i + 2]>> : i \in 1..(Len(poly) - 2)}

\* The centre of pixel q = (y, x) lies in the closed triangle, which has an area.
InsideTriangle(tri, res, q) ==
    LET p0 == PixelPos(tri[1], res)
        p1 == PixelPos(tri[2], res)
        p2 == PixelPos(tri[3], res)
        c == Center(q[2], q[1])
        area == Cross(p0, p1, p2)
    IN /\ area # 0
       /\ Sgn(area) * Sgn(Cross(p0, p1, c)) >= 0
       /\ Sgn(area) * Sgn(Cross(p1, p2, c)) >= 0
       /\ Sgn(area) * Sgn(Cross(p2, p0, c)) >= 0

\* The polygons (numbered from 1) of a set with a fan triangle over pixel q.
Covering(set, q) ==
    {f \in set : \E tri \in FanTriangles(uv.data[f]) : InsideTriangle(tri, bake.args.res, q)}

\* The Direction a polygon is painted with: its store entry, or (0, 0, 1).
PaintedDirection(f) ==
    LET stored == LoadNormalsFromObject(prop)
    IN IF DictHas(stored, f - 1) THEN Unpack3(DictGet(stored, f - 1)).val ELSE <<0, 0, 1>>

AllPolys == 1..Len(select)
SelectedPolys == {f \in AllPolys : select[f]}

\* The buffer is the rasterization of a set of polygons.
RasterizationOf(set) ==
    \A q \in Pixels(bake.args.res) :
       LET cov == Covering(set, q)
       IN /\ q \in bake.mask <=> cov # {}
          /\ bake.pixels[q] = IF cov # {} THEN FlatColor(PaintedDirection(SetMax(cov)), bake.args.flips)
                              ELSE Neutral

\* C9 as stated: after rasterization a pixel is written iff its centre lies
\* in a fan triangle with an area of a polygon of the rasterized set, the
\* selected polygons, or all polygons when none is selected; a written pixel
\* has the flat colour of the last such polygon and alpha 1, an unwritten
\* one is neutral.
C9_AsStated ==
    bake.st = "rasterized" =>
       RasterizationOf(IF SelectedPolys # {} THEN SelectedPolys ELSE AllPolys)

\* C9, amended: the same, where the rasterized set is the selected polygons
\* when the object is in Edit Mode at the call and a polygon is selected,
\* and all polygons otherwise.
C9_RasterizedSet ==
    bake.st = "rasterized" =>
       RasterizationOf(IF bake.args.original_mode = "EDIT" /\ SelectedPolys # {}
                       THEN SelectedPolys ELSE AllPolys)

\* A rasterized buffer of a selection in Edit Mode with an unwritten pixel
\* and a pixel under two selected polygons of different colours.
C9_Witness ==
    /\ bake.st = "rasterized"
    /\ bake.args.original_mode = "EDIT"
    /\ SelectedPolys # {}
    /\ \E q \in Pixels(bake.args.res) : q \notin bake.mask
    /\ \E q \in bake.mask, f \in SelectedPolys, g \in SelectedPolys :
          /\ {f, g} \subseteq Covering(SelectedPolys, q)
          /\ FlatColor(PaintedDirection(f), bake.args.flips) # FlatColor(PaintedDirection(g), bake.args.flips)

Manhattan(a, b) == Abs(a[1] - b[1]) + Abs(a[2] - b[2])

\* The Manhattan distance of pixel q to the nearest pixel of a set; more
\* than any distance in the buffer if the set is empty.
Dist(q, msk) ==
    IF msk = {} THEN 2 * bake.args.res
    ELSE SetMin({Manhattan(q, m) : m \in msk})

\* The 4-neighbours of q within distance k of the rasterized pixels.
RingNeighbours(q, k) ==
    {n \in Pixels(bake.args.res) : Manhattan(n, q) = 1 /\ Dist(n, bake.mask) <= k}

RECURSIVE SumOver(_, _, _)
SumOver(set, colors, c) ==
    IF set = {} THEN <<0, 1>>
    ELSE LET n == CHOOSE n \in set : TRUE
         IN FracAdd(colors[n][c], SumOver(set \ {n}, colors, c))

\* The mean of the colours of a set of pixels, alpha 1.
MeanOver(set, colors) ==
    <<FracDivInt(SumOver(set, colors, 1), Cardinality(set)),
      FracDivInt(SumOver(set, colors, 2), Cardinality(set)),
      FracDivInt(SumOver(set, colors, 3), Cardinality(set)),
      <<1, 1>>>>

\* After bake.iter iterations the written pixels are those within distance
\* bake.iter of a rasterized pixel, and the others have their colour.
GrownByRings ==
    bake.st \in {"padding", "padded"} =>
       \A q \in Pixels(bake.args.res) :
          /\ q \in bake.current_mask <=> Dist(q, bake.mask) <= bake.iter
          /\ (bake.st = "padding" /\ (q \in bake.mask \/ Dist(q, bake.mask) > bake.iter))
                => bake.padded[q] = bake.pixels[q]
          /\ bake.st = "padded" => bake.iter = bake.args.padding /\ bake.pixels[q] = bake.padded[q]

\* Iteration k = bake.iter + 1 fills the pixels at distance k with the mean
\* of their neighbours written before it, and changes no other pixel.
RingStep ==
    (bake.st = "padding" /\ bake'.st = "padding") =>
       /\ bake'.iter = bake.iter + 1
       /\ \A q \in Pixels(bake.args.res) :
             bake'.padded[q] = IF Dist(q, bake.mask) = bake.iter + 1
                               THEN MeanOver(RingNeighbours(q, bake.iter), bake.padded)
                               ELSE bake.padded[q]

\* C10: dilation grows the written region by one 4-connected ring per
\* iteration: after N iterations an unwritten pixel is filled iff its
\* Manhattan distance k to the nearest rasterized pixel is at most N; it was
\* filled in iteration k with the mean of the 4-neighbours written at the end
\* of iteration k - 1, alpha 1; all other pixels keep their colour.
C10_OneRingPerIteration == [](GrownByRings) /\ [][RingStep]_vars

\* The buffer after two iterations with a pixel filled in the second, a
\* pixel that is too far and a filled pixel whose colour is a mean of
\* different colours.
C10_Witness ==
    /\ bake.st = "padded" /\ bake.args.padding = 2
    /\ \E q \in bake.current_mask : Dist(q, bake.mask) = 2
    /\ \E q \in Pixels(bake.args.res) : q \notin bake.current_mask
    /\ \E q \in bake.current_mask \ bake.mask : bake.pixels[q] \notin {bake.pixels[m] : m \in bake.mask}

\* C11: once the mask that a dilation tests marks every pixel, a further
\* iteration of the same call changes neither the colours nor the mask, and a
\* later dilation of the returned pixels, for any number of iterations, with
\* the saturated mask or with the mask of the rasterization, returns the same
\* pixels.
Saturated(msk, res) == msk = Pixels(res)

IterationAfterSaturation ==
    (bake.st = "padding" /\ bake'.st = "padding" /\ Saturated(bake.current_mask, bake.args.res))
        => /\ bake'.iter = bake.iter + 1
           /\ bake'.padded = bake.padded
           /\ bake'.current_mask = bake.current_mask

DilationAfterSaturation ==
    (bake.st = "padded" /\ Saturated(bake.current_mask, bake.args.res))
        => \A n \in 1..(MaxPadding + 1) :
              /\ ApplyPadding(bake.pixels, bake.current_mask, bake.args.res, n) = bake.pixels
              /\ ApplyPadding(bake.pixels, bake.mask, bake.args.res, n) = bake.pixels

C11_IdempotentAfterSaturation == [](DilationAfterSaturation) /\ [][IterationAfterSaturation]_vars

\* The second iteration has run on a mask that the first one saturated.
C11_Witness ==
    /\ bake.st = "padding" /\ bake.iter = 2
    /\ bake.mask # {} /\ ~Saturated(bake.mask, bake.args.res)
    /\ Saturated(PaddingIteration(bake.pixels, bake.mask, bake.args.res).current_mask, bake.args.res)

\* A dilation has returned pixels that it saturated itself.
C11_WitnessReturned ==
    /\ bake.st = "padded" /\ bake.args.padding > 0
    /\ ~Saturated(bake.mask, bake.args.res) /\ Saturated(bake.current_mask, bake.args.res)

\* The offsets of the neighbourhood of a pixel along one axis.
Span(radius) == (-radius)..radius

\* The pixel at offset (a, b) of q on the torus.
Wrapped(q, a, b, res) == <<(q[1] + a) % res, (q[2] + b) % res>>

\* The sum of value[d] over the offsets d of a set.
RECURSIVE SumSpan(_, _)
SumSpan(offsets, value) ==
    IF offsets = {} THEN <<0, 1>>
    ELSE LET d == CHOOSE d \in offsets : TRUE
         IN FracAdd(value[d], SumSpan(offsets \ {d}, value))

\* The unweighted mean of channel c over the neighbourhood of q.
WindowMean(buf, q, c, res, radius) ==
    LET row == [a \in Span(radius) |->
                   SumSpan(Span(radius), [b \in Span(radius) |-> buf[Wrapped(q, a, b, res)][c]])]
    IN FracDivInt(SumSpan(Span(radius), row), Cardinality(Span(radius) \X Span(radius)))

FracIsZero(a) == a[1] = 0
FracPositive(a) == a[1] > 0
Dot(v, w) == FracAdd(FracAdd(FracMul(v[1], w[1]), FracMul(v[2], w[2])), FracMul(v[3], w[3]))
DecodeRGB(color) == <<Decode(color[1]), Decode(color[2]), Decode(color[3])>>

\* o is the unit vector along v, or the zero vector if v is.
UnitAlong(o, v) ==
    IF \A i \in 1..3 : FracIsZero(v[i]) THEN \A i \in 1..3 : FracIsZero(o[i])
    ELSE /\ \A i, j \in 1..3 : FracMul(o[i], v[j]) = FracMul(o[j], v[i])
         /\ FracPositive(Dot(o, v))
         /\ Dot(o, o) = <<1, 1>>

\* A pass leaves in every pixel the direction of the mean, over the wrapped
\* neighbourhood, of the pixels it started from, and the mean of their alpha.
PassFromStart ==
    (bake.st = "smoothing" /\ bake'.st = "smoothing") =>
       /\ bake'.pass = bake.pass + 1
       /\ bake'.before = bake.pixels
       /\ \A q \in Pixels(bake.args.res) :
             LET mean == [c \in 1..4 |-> WindowMean(bake.pixels, q, c, bake.args.res, bake.args.smooth_rad)]
             IN /\ UnitAlong(DecodeRGB(bake'.pixels[q]), DecodeRGB(mean))
                /\ bake'.pixels[q][4] = mean[4]

\* The passes that have run are those of the loop, one after the other on
\* the same buffer: the buffer is ApplySmoothing of the buffer the smoothing
\* was entered with, for the passes so far.
PassesChained ==
    bake.st \in {"smoothing", "smoothed", "returned"} /\ bake.args.use_smooth =>
       /\ bake.pass <= bake.args.smooth_iter
       /\ bake.st # "smoothing" => bake.pass = bake.args.smooth_iter

\* C12: in every smoothing pass each output pixel is computed from the
\* unweighted mean over the (2 * radius + 1) x (2 * radius + 1) neighbourhood,
\* with toroidal wrap, of the buffer as it was at the start of the pass, and
\* pass k + 1 starts from the whole output of pass k.
C12_PassReadsStartOfPass == [](PassesChained) /\ [][PassFromStart]_vars

\* A second pass has run on a buffer that the first pass left with different
\* colours, and has changed it; the neighbourhood is wider than the buffer.
C12_Witness ==
    /\ bake.st = "smoothing" /\ bake.pass = 2
    /\ 2 * bake.args.smooth_rad + 1 > bake.args.res
    /\ bake.pixels # bake.before
    /\ \E q, n \in Pixels(bake.args.res) : bake.before[q] # bake.before[n]

\* A pass with a neighbourhood that wraps around the edge without covering the buffer.
C12_WitnessWrap ==
    /\ bake.st = "smoothing" /\ bake.pass = 1
    /\ 2 * bake.args.smooth_rad + 1 < bake.args.res
    /\ \E q, n \in Pixels(bake.args.res) : bake.pixels[q] # bake.pixels[n]

\* The square of the magnitude of the direction decoded from a colour.
Magnitude2(color) == Dot(DecodeRGB(color), DecodeRGB(color))

\* The mean colour over the neighbourhood of q in the buffer the last pass started from.
BlurredAt(q) == [c \in 1..4 |-> WindowMean(bake.before, q, c, bake.args.res, bake.args.smooth_rad)]

Smoothed ==
    \/ bake.st = "smoothing" /\ bake.pass >= 1
    \/ bake.st \in {"smoothed", "returned", "finished"} /\ bake.args.use_smooth

\* C13: after every smoothing pass, and in the buffer that is returned after
\* smoothing, the direction decoded from every pixel (rgb * 2 - 1) has
\* magnitude 0 or 1, and a pixel whose blurred direction is zero holds
\* rgb (0.5, 0.5, 0.5).
C13_UnitOrZeroAfterSmoothing ==
    Smoothed =>
       \A q \in Pixels(bake.args.res) :
          /\ Magnitude2(bake.pixels[q]) \in {<<0, 1>>, <<1, 1>>}
          /\ Magnitude2(BlurredAt(q)) = <<0, 1>>
                => <<bake.pixels[q][1], bake.pixels[q][2], bake.pixels[q][3]>> = << <<1, 2>>, <<1, 2>>, <<1, 2>> >>

\* A pass has run in which one blurred direction was zero, one was shorter
\* than 1 and one was longer.
C13_Witness ==
    /\ bake.st = "smoothing" /\ bake.pass >= 1
    /\ \E q \in Pixels(bake.args.res) : Magnitude2(BlurredAt(q)) = <<0, 1>>
    /\ \E q \in Pixels(bake.args.res) :
          FracPositive(Magnitude2(BlurredAt(q))) /\ FracLess(Magnitude2(BlurredAt(q)), <<1, 1>>)
    /\ \E q \in Pixels(bake.args.res) : FracLess(<<1, 1>>, Magnitude2(BlurredAt(q)))

\* The output of the rasterizer for the polygons of the bake.
Rasterized ==
    RasterizePolys(EmptyBuffer(bake.args.res), bake.args.res, uv.data, 1,
                   SelectedPolyIndices(select, bake.args.original_mode),
                   LoadNormalsFromObject(prop), bake.args.flips).buf

\* The rasterizer output, dilated if padding > 0.
Dilated ==
    IF bake.args.padding > 0
    THEN ApplyPadding(Rasterized.pixels, Rasterized.mask, bake.args.res, bake.args.padding)
    ELSE Rasterized.pixels

\* Where the bake is, the buffer is the output of the stages before.
StagesInOrder ==
    /\ bake.st \in {"rasterized", "padding"} =>
          bake.pixels = Rasterized.pixels /\ bake.mask = Rasterized.mask /\ bake.pass = 0
    /\ bake.st = "padding" => bake.args.padding > 0 /\ bake.iter <= bake.args.padding
    /\ bake.st = "padded" \/ (bake.st = "smoothing" /\ bake.pass = 0) => bake.pixels = Dilated
    /\ bake.st = "smoothing" => bake.args.use_smooth
    /\ bake.st \in {"smoothed", "returned", "finished"} =>
          IF bake.args.use_smooth THEN bake.pass = bake.args.smooth_iter /\ bake.pass >= 1
          ELSE bake.pass = 0 /\ bake.pixels = Dilated
    /\ (bake.st = "returned" /\ bake.args.padding = 0 /\ ~bake.args.use_smooth) =>
          bake.pixels = Rasterized.pixels

\* A dilation iteration runs in the dilation stage only, on the rasterizer
\* output, and a smoothing pass in the smoothing stage only, on the dilated
\* buffer or on the output of the pass before.
StageSteps ==
    /\ (bake.st \notin {"idle", "file_select"} /\ bake'.iter # bake.iter) =>
          /\ bake.st = "padding" /\ bake'.st = "padding" /\ bake.args.padding > 0
          /\ bake.pixels = Rasterized.pixels /\ bake'.pixels = bake.pixels /\ bake.pass = 0
    /\ (bake.st \notin {"idle", "file_select"} /\ bake'.pass # bake.pass) =>
          /\ bake.st = "smoothing" /\ bake'.st = "smoothing" /\ bake.args.use_smooth
          /\ bake.iter = bake.args.padding \/ bake.args.padding = 0
          /\ bake'.pixels = SmoothingPass(bake.pixels, bake.args.res, bake.args.smooth_rad)
    /\ (bake.st \notin {"idle", "file_select"} /\ bake'.pixels # bake.pixels) =>
          \/ bake.st = "padding" /\ bake'.st = "padded"
          \/ bake.st = "smoothing" /\ bake'.st = "smoothing"

\* C14: the bake rasterizes, then dilates, then smooths: the dilation runs
\* only when padding > 0 and on the output of the rasterization of all the
\* polygons, the smoothing only when enabled and on the output of the
\* dilation; with padding = 0 and no smoothing the returned buffer is the
\* rasterizer output.
C14_StageOrder == [](StagesInOrder) /\ [][StageSteps]_vars

\* A bake has returned whose three stages each changed the buffer.
C14_Witness ==
    /\ bake.st = "returned" /\ bake.args.padding > 0 /\ bake.args.use_smooth
    /\ Rasterized.pixels # EmptyBuffer(bake.args.res).pixels
    /\ Dilated # Rasterized.pixels
    /\ bake.pixels # Dilated

\* A bake without padding and smoothing has returned the rasterizer output.
C14_WitnessPlain ==
    /\ bake.st = "returned" /\ bake.args.padding = 0 /\ ~bake.args.use_smooth
    /\ bake.mask # {} /\ bake.pixels = Rasterized.pixels

\* 0 <= a <= 1
InUnitInterval(a) == a[1] >= 0 /\ a[1] <= a[2]

\* C15 (as stated): the buffer a bake returns has res x res pixels of four
\* channels, and every channel lies in [0, 1], whatever the store, the flips,
\* the padding and the smoothing.
C15_AsStated ==
    bake.st = "returned" =>
       /\ DOMAIN bake.pixels = Pixels(bake.args.res)
       /\ \A q \in Pixels(bake.args.res) :
             /\ DOMAIN bake.pixels[q] = 1..4
             /\ \A c \in 1..4 : InUnitInterval(bake.pixels[q][c])

\* The shape of the buffer alone: res x res pixels of four channels.
C15_Shape ==
    bake.st = "returned" =>
       /\ DOMAIN bake.pixels = Pixels(bake.args.res)
       /\ \A q \in Pixels(bake.args.res) : DOMAIN bake.pixels[q] = 1..4

\* The store has a key that is no polygon index of the mesh.
HasStale(stored) == \E i \in 1..Len(stored) : stored[i][1] \notin 0..(Len(mesh) - 1)

\* The store without its stale entries.
WithoutStale(stored) == SelectSeq(stored, LAMBDA e : e[1] \in 0..(Len(mesh) - 1))

\* The rasterization of the bake with the stale entries removed from the store.
RasterizedWithoutStale ==
    RasterizePolys(EmptyBuffer(bake.args.res), bake.args.res, uv.data, 1,
                   SelectedPolyIndices(select, bake.args.original_mode),
                   WithoutStale(LoadNormalsFromObject(prop)), bake.args.flips)

BakeRan == bake.st \notin {"idle", "file_select", "returned_none", "cancelled"}

\* C16 (as stated): with a store that has stale keys, the bake completes
\* without error and rasterizes what it rasterizes with the stale entries
\* removed, a polygon without an entry being painted with (0, 0, 1).
C16_AsStated ==
    (BakeRan /\ HasStale(LoadNormalsFromObject(prop))) =>
       /\ bake.st # "raised"
       /\ bake.rasterized = RasterizedWithoutStale.buf.pixels
       /\ bake.mask = RasterizedWithoutStale.buf.mask

\* The stale entries are never read by the bake: it ends as it ends without
\* them, with the same buffer or with the same exception.
C16_BakeIgnoresStale ==
    (BakeRan /\ HasStale(LoadNormalsFromObject(prop))) =>
       /\ bake.st = "raised" <=> ~RasterizedWithoutStale.ok
       /\ bake.rasterized = RasterizedWithoutStale.buf.pixels
       /\ bake.mask = RasterizedWithoutStale.buf.mask

\* The same for the update of the preview batch (under SpecToon).
C16_PreviewIgnoresStale ==
    (toon.st # "idle" /\ HasStale(LoadNormalsFromObject(prop))) =>
       LET r == ToonScan(LoopTriangles(mesh, 1), 1, WithoutStale(LoadNormalsFromObject(prop)),
                         settings.toon_light_dir)
       IN /\ toon.st = "raised" <=> ~r.ok
          /\ toon.st = "updated" => toon.batch = [pos |-> r.vertices, color |-> r.colors]

\* A bake with a stale key and well-formed entries has rasterized a polygon
\* that has an entry and a polygon that has none.
C16_WitnessStale ==
    /\ bake.st = "returned" /\ HasStale(LoadNormalsFromObject(prop))
    /\ \E f, g \in bake.indices :
          DictHas(LoadNormalsFromObject(prop), f) /\ ~DictHas(LoadNormalsFromObject(prop), g)

BakeNotCalled == bake.st \in {"idle", "file_select"}

\* Without an active UV layer the bake returns no buffer and its operator
\* returns CANCELLED; the mode and the images stay as they are.
NoUVStep ==
    /\ (BakeNotCalled /\ bake'.st \notin {"idle", "file_select"}) =>
          /\ bake'.args.original_mode = mode
          /\ uv.layer = "none" <=> bake'.st = "returned_none"
    /\ bake.st = "returned_none" /\ bake' # bake => bake'.st = "cancelled"
    /\ (uv.layer = "none" \/ bake.st = "returned_none") => mode' = mode /\ images' = images /\ uv' = uv

\* The mode is the one at entry when the bake has returned, with or without a buffer.
ModeRestored ==
    /\ bake.st \in {"returned_none", "cancelled"} => uv.layer = "none" /\ mode = bake.args.original_mode
    /\ bake.st \in {"returned", "finished"} => uv.layer = "active" /\ mode = bake.args.original_mode

\* C17: without an active UV layer the bake yields no buffer, the operator
\* that called it returns CANCELLED without creating or modifying an image,
\* and the object stays in the mode it was in; on the success path the mode
\* is restored to the mode at entry.
C17_NoUVCancels == [](ModeRestored) /\ [][NoUVStep]_vars

\* The preview was cancelled in Edit Mode with an earlier preview image in place.
C17_Witness ==
    /\ bake.st = "cancelled" /\ bake.caller = "preview"
    /\ bake.args.original_mode = "EDIT" /\ images = OldPreview

\* The export was cancelled: the UV layers were removed while the file browser was open.
C17_WitnessExport == bake.st = "cancelled" /\ bake.caller = "export" /\ mode = "EDIT"

\* A bake called in Edit Mode has finished with a new image.
C17_WitnessSuccess ==
    /\ bake.st = "finished" /\ bake.args.original_mode = "EDIT" /\ mode = "EDIT"
    /\ images.data # <<>>

(***************************************************************************)
(* C18: one quad over the whole unit square, stored direction (0,0,1),     *)
(* resolution 4, padding 0.                                                *)
(***************************************************************************)
\* The UV layout of a single quad whose corners are the corners of the unit square.
UnitSquare == << << <<0, 0>>, <<UVDen, 0>>, <<UVDen, UVDen>>, <<0, UVDen>> >> >>

\* The scenario: that quad is baked at resolution 4 without padding and
\* without smoothing, and the store holds (0, 0, 1) for polygon 0.
QuadScenario ==
    /\ bake.st \in {"rasterized", "padded", "smoothed", "returned", "finished"}
    /\ uv.layer = "active" /\ uv.data = UnitSquare
    /\ LET stored == LoadNormalsFromObject(prop)
       IN /\ DictHas(stored, 0)
          /\ Unpack3(DictGet(stored, 0)) = [ok |-> TRUE, val |-> <<0, 0, 1>>]
    /\ bake.args.res = 4 /\ bake.args.padding = 0 /\ ~bake.args.use_smooth

\* The image the operator that called the bake has filled.
FilledImage ==
    LET name == IF bake.caller = "export" THEN ExportName ELSE PreviewName
        k == CHOOSE k \in 1..Len(images.data) :
                 /\ images.data[k].name = name
                 /\ \A j \in (k + 1)..Len(images.data) : images.data[j].name # name
    IN images.data[k]

\* C18: in the scenario all 16 pixels are written; without flip_blue every
\* pixel is (0.5, 0.5, 1.0, 1.0), with flip_blue (and flip_red) the blue
\* channel of every pixel is 0.0 and the others are 0.5, 0.5 and 1.0; the
\* buffer stays so up to the return of the bake, and the image that is then
\* filled holds it.
C18_UnitSquareQuad ==
    QuadScenario =>
        /\ bake.mask = Pixels(4) /\ Cardinality(bake.mask) = 16
        /\ DOMAIN bake.pixels = Pixels(4)
        /\ \A q \in Pixels(4) :
              bake.pixels[q] =
                  IF bake.args.flips[3] THEN << <<1, 2>>, <<1, 2>>, <<0, 1>>, <<1, 1>> >>
                  ELSE << <<1, 2>>, <<1, 2>>, <<1, 1>>, <<1, 1>> >>
        /\ bake.st = "finished" => FilledImage.size = 4 /\ FilledImage.pixels = bake.pixels

\* Scenario A has been baked and returned.
C18_Witness ==
    /\ QuadScenario /\ bake.st = "returned"
    /\ bake.args.flips = <<FALSE, FALSE, FALSE>>
    /\ bake.pixels[<<1, 1>>] = << <<1, 2>>, <<1, 2>>, <<1, 1>>, <<1, 1>> >>

\* Scenario B has been baked and its image filled.
C18_WitnessFlipBlue ==
    /\ QuadScenario /\ bake.st = "finished"
    /\ bake.args.flips[3]
    /\ FilledImage.pixels[<<2, 1>>][3] = <<0, 1>>

(***************************************************************************)
(* C19: the arguments of the export bake and of the preview bake.          *)
(***************************************************************************)
\* The arguments the scene settings configure.
Configured ==
    [res |-> settings.bake_resolution, padding |-> settings.bake_padding, flips |-> settings.bake_flip,
     use_smooth |-> settings.bake_use_smoothing, smooth_rad |-> settings.bake_smooth_radius,
     smooth_iter |-> settings.bake_smooth_iterations]

\* The arguments the bake was called with.
Passed ==
    [res |-> bake.args.res, padding |-> bake.args.padding, flips |-> bake.args.flips,
     use_smooth |-> bake.args.use_smooth, smooth_rad |-> bake.args.smooth_rad,
     smooth_iter |-> bake.args.smooth_iter]

BakeCalled == bake.st \notin {"idle", "file_select"}

\* The settings lie in the ranges of their declaration.
SettingsInRange ==
    /\ settings.bake_padding \in 0..64
    /\ settings.bake_smooth_radius \in 1..SettingsRadiusMax
    /\ settings.bake_smooth_iterations \in 1..10

\* C19 (as stated): for settings in their ranges, the export bake is called
\* with exactly the configured resolution, padding, flips, smoothing flag,
\* radius and iterations, as the preview bake is.
C19_AsStated ==
    (BakeCalled /\ SettingsInRange) => Passed = Configured

\* The preview bake is called with the configured arguments.
C19_PreviewRunsSettings ==
    (BakeCalled /\ bake.caller = "preview") => Passed = Configured

\* The export bake is called with the configured arguments, except that a
\* radius above the maximum of the operator's property becomes that maximum.
C19_ExportClampsRadius ==
    (BakeCalled /\ bake.caller = "export") =>
        Passed = [Configured EXCEPT !.smooth_rad = Min(OperatorRadiusMax, settings.bake_smooth_radius)]

\* An export bake has been called with a radius that is not the configured one.
C19_WitnessClamped ==
    /\ BakeCalled /\ bake.caller = "export" /\ SettingsInRange
    /\ bake.args.smooth_rad = OperatorRadiusMax
    /\ settings.bake_smooth_radius = OperatorRadiusMax + 1

(***************************************************************************)
(* C20: cancelling a picker session.                                       *)
(***************************************************************************)
\* The step is the cancel of a running session (ESC or right mouse press).
CancelStep == op.running /\ last'.op = "cancel"

\* What a step of the picker does to the directions captured at invoke, to
\* the corner directions on cancel, and to the yaw and pitch settings.
CancelRestores ==
    \* a session starts: the directions of all corners are captured as they are
    /\ (~op.running /\ op'.running) => (op'.original_normals = normals /\ normals' = normals)
    \* while the session runs, whatever the event, the captured directions are kept
    /\ (op.running /\ op'.running) => op'.original_normals = op.original_normals
    \* cancel: every corner has its captured direction again, the session is
    \* over and the settings are as they were
    /\ CancelStep =>
          /\ DOMAIN normals' = DOMAIN normals
          /\ \A l \in DOMAIN normals' : normals'[l] = op.original_normals[l]
          /\ settings' = settings
          /\ ~op'.running
    \* yaw and pitch of the settings change on confirm only
    /\ (settings'.yaw # settings.yaw \/ settings'.pitch # settings.pitch) =>
          (op.running /\ last'.op = "confirm")

\* C20: cancelling a picker session after any presses, drags and releases
\* puts every corner direction back to the value captured when the session
\* was invoked and leaves the yaw and pitch settings unchanged; these
\* settings are written on confirm only.
C20_CancelRestores == [][CancelRestores]_vars

\* A drag has changed the directions of a running session.
C20_WitnessDragged ==
    /\ op.running /\ last.op \in {"press", "move"}
    /\ normals # op.original_normals

\* A session was cancelled after a drag that had moved the angles and a
\* release; the corners have the captured directions.
C20_Witness ==
    /\ last.op = "cancel" /\ ~op.running /\ ~op.dragging
    /\ <<op.yaw, op.pitch>> # <<settings.yaw, settings.pitch>>
    /\ normals = op.original_normals

\* A session was cancelled after a drag, and the directions captured at its
\* invoke were not the initial ones: an operator had set them before.
C20_WitnessEdited ==
    /\ last.op = "cancel" /\ ~op.running
    /\ <<op.yaw, op.pitch>> # <<settings.yaw, settings.pitch>>
    /\ normals = op.original_normals
    /\ \E l \in DOMAIN normals : normals[l] # <<0, 0, 1>>

(***************************************************************************)
(* C21: the store after a cancelled picker session.                        *)
(***************************************************************************)
\* The session of the operator has been cancelled and nothing has run since.
Cancelled == last.op = "cancel" /\ ~op.running

\* The polygons (0-based) that own a corner of the set.
OwnersOf(m, loops) == {f - 1 : f \in {g \in 1..Len(m) : LoopsOf(m, g) \cap loops # {}}}

\* The store has an entry for polygon f that no corner of f carries.
EntryDisagrees(stored, f) ==
    /\ DictHas(stored, f)
    /\ \A l \in LoopsOf(mesh, f + 1) : TupleOfDirection(normals[l + 1]) # DictGet(stored, f)

\* C21 (as stated): after a cancel the store is equal to the store the
\* session was invoked with.
C21_AsStated ==
    Cancelled => SameStore(LoadNormalsFromObject(prop), LoadNormalsFromObject(op.prop_at_invoke))

\* The cancel itself leaves the property as the last drag saved it, and
\* while a session runs the property changes on a press or a move only.
StoreLeftAsSaved ==
    /\ CancelStep => prop' = prop
    /\ (op.running /\ prop' # prop) => last'.op \in {"press", "move"}
    /\ (op.running /\ op'.running) => op'.prop_at_invoke = op.prop_at_invoke
    /\ (~op.running /\ op'.running) => (op'.prop_at_invoke = prop /\ prop' = prop)

C21_CancelKeepsSavedStore == [][StoreLeftAsSaved]_vars

\* A session invoked without a property, dragged and cancelled: the
\* property holds an entry for the selected polygon written by the drag,
\* and every corner of that polygon has its captured direction, which is
\* another one.
C21_WitnessSurvives ==
    /\ Cancelled
    /\ op.prop_at_invoke = [kind |-> "absent"]
    /\ normals = op.original_normals
    /\ \E f \in OwnersOf(mesh, op.selected_loops) : EntryDisagrees(LoadNormalsFromObject(prop), f)

(***************************************************************************)
(* C22: the axis of the mirrored direction within a session.               *)
(***************************************************************************)
\* The axes along which the mirror targets' direction is the negated direction
\* of the step (none if the targets do not all carry one such direction).
NegatedAxes(ns, o, d) == {a \in Axes : \A l \in Targets(o) : ns[l + 1] = Negate(d, a)}

\* C22 (as stated): every apply step of a session completes without error,
\* and with a MirrorMap it writes the direction negated along the axis the
\* map was built with at invoke, whatever the mirror_axis setting has become
\* since.
C22_AsStated ==
    [][(op.running /\ ApplyStep') =>
          /\ last'.result # "ERROR"
          /\ Targets(op) # {} =>
                \A l \in Targets(op) : normals'[l + 1] = Negate(last'.d, op.map_axis)]_vars

\* What an apply step of a session with a MirrorMap does: it raises exactly
\* when the setting is NONE at that time, and otherwise negates along the
\* axis the setting names at that time.
AxisReadAtApply ==
    (op.running /\ ApplyStep' /\ Targets(op) # {}) =>
        /\ last'.result = "ERROR" <=> settings.mirror_axis = "NONE"
        /\ last'.result # "ERROR" =>
              \A l \in Targets(op) : normals'[l + 1] = Negate(last'.d, settings.mirror_axis)
        /\ (settings.mirror_axis = op.map_axis) =>
              /\ last'.result # "ERROR"
              /\ \A l \in Targets(op) : normals'[l + 1] = Negate(last'.d, op.map_axis)

C22_AxisReadAtApply == [][AxisReadAtApply]_vars

\* Without a MirrorMap no apply step of a session raises.
C22_NoMapNoError ==
    [][(op.running /\ ApplyStep' /\ Targets(op) = {}) => last'.result # "ERROR"]_vars

\* An apply step has negated along an axis the map was not built with, and
\* not along the axis of the map.
C22_WitnessOtherAxis ==
    /\ ApplyCompleted /\ Targets(op) # {}
    /\ settings.mirror_axis # op.map_axis
    /\ settings.mirror_axis \in NegatedAxes(normals, op, last.d)
    /\ op.map_axis \notin NegatedAxes(normals, op, last.d)

\* An apply step of a session with a MirrorMap has raised after the setting
\* was changed to NONE.
C22_WitnessRaised ==
    /\ ApplyStep /\ last.result = "ERROR"
    /\ Targets(op) # {} /\ op.map_axis # "NONE" /\ settings.mirror_axis = "NONE"

(***************************************************************************)
(* C23: the life cycle of a picker session.                                *)
(***************************************************************************)
\* The step is an event of a running session that ran apply_current_normal:
\* a left press inside the rectangle, or a move while dragging.
DragStep ==
    /\ op.running /\ last'.d # NoDirection
    /\ last'.op = "press" \/ (last'.op = "move" /\ op.dragging)

\* What changes corner directions and the store while a session runs: a
\* drag step, or the cancel that puts the captured directions back; a press
\* outside the rectangle and a move without dragging change neither.
MutatedByDragsOnly ==
    /\ (op.running /\ (normals' # normals \/ prop' # prop)) =>
          \/ DragStep
          \/ last'.op = "cancel" /\ prop' = prop /\ normals' = op.original_normals
    /\ (op.running /\ last'.op \in {"press", "move"} /\ ~DragStep) => UNCHANGED <<normals, prop>>

\* What the steps do to the registered draw handlers.
HandlerSteps ==
    /\ (last'.op = "invoke" /\ last'.result = "CANCELLED") =>
          /\ handlers' = handlers /\ op'.running = op.running /\ op'.handle = op.handle
    /\ (last'.op = "invoke" /\ last'.result = "RUNNING_MODAL") =>
          /\ handlers' = handlers + 1 /\ op'.running /\ op'.handle
    /\ (op.running /\ last'.op \in {"confirm", "cancel"}) =>
          /\ handlers' = handlers - 1 /\ ~op'.running /\ ~op'.handle

\* C23 (as stated): a draw handler is registered exactly while the session
\* runs; a cancelled invoke registers none; confirm and cancel remove it
\* once; directions and store change by drag steps only.
C23_AsStated ==
    /\ [](handlers = IF op.running THEN 1 ELSE 0)
    /\ [][HandlerSteps /\ MutatedByDragsOnly]_vars

\* The parts that hold: the steps of invoke, confirm and cancel on the
\* handlers, the steps that change directions and store, and a handler for
\* every running session.
C23_LifecycleSteps ==
    /\ [](op.running => (op.handle /\ handlers >= 1))
    /\ [][HandlerSteps /\ MutatedByDragsOnly]_vars

\* A session ends in another way: an apply step that raises ends it and
\* removes no handler.
C23_RaiseKeepsHandler ==
    [][(op.running /\ last'.result = "ERROR") =>
          (~op'.running /\ op'.handle /\ handlers' = handlers)]_vars

\* No session runs and a draw handler is registered: the session ended by
\* an exception of an apply step.
C23_WitnessLeaked ==
    /\ ~op.running /\ handlers = 1 /\ op.handle
    /\ ApplyStep /\ last.result = "ERROR"

\* A session was ended by confirm after a drag had changed the directions;
\* no handler is left.
C23_WitnessConfirmed ==
    /\ last.op = "confirm" /\ ~op.running /\ handlers = 0
    /\ normals # op.original_normals

(***************************************************************************)
(* C24: mirror targets and selected corners are disjoint.                  *)
(***************************************************************************)
\* Every target of the map is a corner of an unselected polygon; no target
\* is a selected corner; no polygon owns both a selected corner and a target.
TargetsUnselected(map, loops) ==
    /\ \A l \in MapValues(map) : l \in AllLoops(mesh) /\ ~select[FaceOfLoop(mesh, l)]
    /\ MapValues(map) \cap loops = {}
    /\ PolysOf(mesh, MapValues(map)) \cap PolysOf(mesh, loops) = {}

\* The directions and the store an apply step leaves when the mirrored
\* writes are performed before the writes of the selected corners.
MirroredFirst(ns, p, loops, targets, d, md) ==
    [normals |-> SetNormals(SetNormals(ns, targets, md), loops, d),
     stored |-> StorePolys(StorePolys(LoadNormalsFromObject(p), mesh, 1, targets, TupleOfDirection(md)),
                           mesh, 1, loops, TupleOfDirection(d))]

\* A completed apply step of a session leaves what it would leave with the
\* two groups of writes in the other order, and no corner and no store entry
\* of a polygon with a selected corner holds the mirrored direction when
\* that differs from the direction.
OrderIndependent ==
    (op.running /\ ApplyCompleted') =>
        LET d == last'.d
            md == IF Targets(op) = {} THEN d ELSE Negate(d, settings.mirror_axis)
            other == MirroredFirst(normals, prop, op.selected_loops, Targets(op), d, md)
        IN /\ normals' = other.normals
           /\ SameStore(LoadNormalsFromObject(prop'), other.stored)
           /\ \A l \in op.selected_loops : normals'[l + 1] = d
           /\ \A l \in Targets(op) : normals'[l + 1] = md
           /\ \A f \in PolysOf(mesh, op.selected_loops) :
                 DictGet(LoadNormalsFromObject(prop'), f - 1) = TupleOfDirection(d)
           /\ \A f \in PolysOf(mesh, Targets(op)) :
                 DictGet(LoadNormalsFromObject(prop'), f - 1) = TupleOfDirection(md)

\* C24: every target corner of a session's MirrorMap belongs to an unselected
\* polygon, so the targets are disjoint from the selected corners (and the
\* polygons that own them from the polygons of the selection), and a
\* completed apply step does not depend on the order of the selected-corner
\* writes and the mirrored writes.
C24_TargetsDisjoint ==
    /\ [](TargetsUnselected(op.mirror_map, op.selected_loops))
    /\ [][OrderIndependent]_vars

\* An apply step has completed with mirror targets whose direction is not
\* the direction of the selected corners: both groups are non-empty and
\* carry different values.
C24_Witness ==
    /\ ApplyCompleted /\ Targets(op) # {} /\ op.selected_loops # {}
    /\ \A l \in Targets(op) : normals[l + 1] # last.d
    /\ \A l \in op.selected_loops : normals[l + 1] = last.d
\* Two polygons are selected, one the image of the other about X, and an
\* apply step has completed with the targets found about another axis.
C24_WitnessImageSelected ==
    /\ ApplyCompleted /\ Targets(op) # {}
    /\ Cardinality(PolysOf(mesh, op.selected_loops)) = 2
    /\ op.map_axis = "Y"
    /\ FindMirrorLoops(mesh, select, "X", DefaultThreshold) = <<>>

====
